---------------------------- MODULE Spec2Model ----------------------------
(***************************************************************************)
(* Model of the payment-platform server (src/server.js) and of its older   *)
(* standalone variant (src/app.js).                                        *)
(*                                                                         *)
(* The state is the content of the JSON documents the handlers read and    *)
(* rewrite (users.json, transactions.json, gift_card_submissions.json,     *)
(* admin_logs.json), the requests whose multipart upload is still in       *)
(* flight, the wall clock, and the last response sent.  Every handler is   *)
(* synchronous JavaScript, so one handler is one action.  Fields that no   *)
(* handler reads back (names and e-mail copies inside transactions and log *)
(* entries, their timestamps, ip, uploaded file names) are left out of the *)
(* records.                                                                *)
(*                                                                         *)
(* The handlers are modelled on intact data files.  The files themselves,  *)
(* with their .backup and .autosave copies, loads of missing, blank or     *)
(* malformed files, crashes inside a write and the start-up repair, are    *)
(* modelled by the record-store specification on the variable files, where *)
(* a document is a sequence of opaque entries.  A crash inside a credit or *)
(* a debit is modelled on the documents themselves: the files are built    *)
(* from them, written up to the crash, repaired and read back.             *)
(*                                                                         *)
(* JavaScript strings that the code builds or compares are modelled as     *)
(* tagged pairs <<tag, n>> (ids, ISO timestamps, sentinels) or as          *)
(* sequences of characters (emails, amounts typed by the client), and      *)
(* JavaScript numbers as records [k, v] so that NaN, the infinities and    *)
(* JSON null are values of the model.  Amounts and balances are multiples  *)
(* of 50, which keeps balance * 0.02 an integer.                           *)
(***************************************************************************)
EXTENDS Integers, Sequences, FiniteSets, TLC

VARIABLES
    users,                \* users.json: the records in key (insertion) order
    transactions,         \* transactions.json
    giftCardSubmissions,  \* gift_card_submissions.json
    adminLogs,            \* admin_logs.json
    uploading,            \* gift-card requests between requireUserLogin and the handler
    now,                  \* Date.now()
    res,                  \* the last response sent
    audit,                \* whether admin_logs.json can be read and written
    files,                \* record store: what each data file holds
    loaded                \* record store: the value the last load returned

vars == <<users, transactions, giftCardSubmissions, adminLogs, uploading, now, res,
          audit, files, loaded>>

\* the variables of the handlers and those of the record store
handlerVars == <<users, transactions, giftCardSubmissions, adminLogs, uploading, now, res>>
storeVars == <<files, loaded>>

---------------------------------------------------------------------------
(* Bounds of the model *)

MaxUsers == 3     \* records in users.json
MaxLogs == 2      \* entries in admin_logs.json
MaxTx == 2        \* entries in transactions.json written by app.js
MaxClock == 1     \* the last clock value
MaxPayments == 2  \* activation payments recorded in transactions.json
MaxDecisions == 1 \* approvals and rejections
MaxDoc == 2       \* entries of a document of the record store

---------------------------------------------------------------------------
(* JavaScript numbers and JSON *)

Num(n) == [k |-> "num", v |-> n]
NaN == [k |-> "NaN", v |-> 0]
Infinity == [k |-> "Infinity", v |-> 0]
NegInfinity == [k |-> "-Infinity", v |-> 0]
Null == [k |-> "null", v |-> 0]

\* ToNumber on a number or null (null converts to 0)
ToNumber(x) == IF x.k = "null" THEN Num(0) ELSE x

isNaN(x) == ToNumber(x).k = "NaN"

JsNeg(x) ==
    CASE x.k = "num" -> Num(0 - x.v)
      [] x.k = "Infinity" -> NegInfinity
      [] x.k = "-Infinity" -> Infinity
      [] OTHER -> NaN

\* a + b on numbers (and null)
JsAdd(a, b) ==
    LET x == ToNumber(a)
        y == ToNumber(b)
    IN  IF x.k = "NaN" \/ y.k = "NaN" THEN NaN
        ELSE IF x.k = "num" /\ y.k = "num" THEN Num(x.v + y.v)
        ELSE IF x.k = "num" THEN y
        ELSE IF y.k = "num" THEN x
        ELSE IF x.k = y.k THEN x
        ELSE NaN

\* a - b
JsSub(a, b) == JsAdd(a, JsNeg(ToNumber(b)))

\* a < b
JsLt(a, b) ==
    LET x == ToNumber(a)
        y == ToNumber(b)
    IN  IF x.k = "NaN" \/ y.k = "NaN" THEN FALSE
        ELSE IF x.k = "num" /\ y.k = "num" THEN x.v < y.v
        ELSE IF x.k = "-Infinity" THEN y.k # "-Infinity"
        ELSE IF x.k = "Infinity" THEN FALSE
        ELSE y.k = "Infinity"

\* a <= b
JsLe(a, b) ==
    LET x == ToNumber(a)
        y == ToNumber(b)
    IN  IF x.k = "NaN" \/ y.k = "NaN" THEN FALSE ELSE x = y \/ JsLt(x, y)

\* a > b
JsGt(a, b) == JsLt(b, a)

\* x || 0
OrZero(x) == IF x.k \in {"NaN", "null"} \/ x = Num(0) THEN Num(0) ELSE x

\* balance * 0.2: the rate with a digit lost
TimesFeeRateTenfold(x) ==
    LET y == ToNumber(x)
    IN  IF y.k = "num" THEN Num((y.v * 2) \div 10) ELSE y

\* balance * 0.02 (balances are multiples of 50)
TimesFeeRate(x) ==
    LET y == ToNumber(x)
    IN  IF y.k = "num" THEN Num((y.v * 2) \div 100) ELSE y

\* JSON.parse(JSON.stringify(x)) of a number: NaN and the infinities become null
JsonNumber(x) == IF x.k = "num" THEN x ELSE Null

---------------------------------------------------------------------------
(* Strings *)

Digits == {"0", "1", "2", "3", "4", "5", "6", "7", "8", "9"}

DigitVal(c) ==
    CASE c = "0" -> 0 [] c = "1" -> 1 [] c = "2" -> 2 [] c = "3" -> 3
      [] c = "4" -> 4 [] c = "5" -> 5 [] c = "6" -> 6 [] c = "7" -> 7
      [] c = "8" -> 8 [] c = "9" -> 9

RECURSIVE DecimalPrefix(_, _)
\* the value of the longest prefix of s made of digits, after acc
DecimalPrefix(s, acc) ==
    IF s = <<>> \/ Head(s) \notin Digits THEN acc
    ELSE DecimalPrefix(Tail(s), acc * 10 + DigitVal(Head(s)))

StartsWith(s, p) == Len(s) >= Len(p) /\ SubSeq(s, 1, Len(p)) = p

InfinityLiteral == <<"I", "n", "f", "i", "n", "i", "t", "y">>

\* parseFloat of a string without fraction or exponent; <<>> stands for a
\* missing field as well (parseFloat(undefined) is NaN)
parseFloat(str) ==
    LET signed == str # <<>> /\ Head(str) \in {"+", "-"}
        neg == str # <<>> /\ Head(str) = "-"
        body == IF signed THEN Tail(str) ELSE str
    IN  IF StartsWith(body, InfinityLiteral)
            THEN (IF neg THEN NegInfinity ELSE Infinity)
        ELSE IF body = <<>> \/ Head(body) \notin Digits THEN NaN
        ELSE IF neg THEN Num(0 - DecimalPrefix(body, 0))
        ELSE Num(DecimalPrefix(body, 0))

LowerChar(c) ==
    CASE c = "A" -> "a" [] c = "B" -> "b" [] c = "J" -> "j" [] c = "R" -> "r"
      [] OTHER -> c

\* String.prototype.toLowerCase
toLowerCase(s) == [i \in DOMAIN s |-> LowerChar(s[i])]

---------------------------------------------------------------------------
(* Identifiers, timestamps and sentinels *)

Undefined == <<"undefined", 0>>
ADMIN == <<"ADMIN", 0>>
System == <<"system", 0>>
adminId1 == <<"admin", 1>>
adminId2 == <<"admin", 2>>
UserId(t) == <<"user_", t>>
AdminCreatedId(t) == <<"admin_created_", t>>
\* new Date().toISOString()
ISOString(t) == <<"iso", t>>

\* the clock values a call of Date.now() can return after the last one
Clock == {t \in {now, now + 1} : t <= MaxClock}

---------------------------------------------------------------------------
(* The users document: a JavaScript object, i.e. records in key order *)

Keys(us) == {us[i].id : i \in DOMAIN us}

IndexOfKey(us, key) ==
    IF \E i \in DOMAIN us : us[i].id = key
        THEN CHOOSE i \in DOMAIN us : us[i].id = key
    ELSE 0

HasKey(us, key) == IndexOfKey(us, key) # 0

GetUser(us, key) == us[IndexOfKey(us, key)]

\* users[key] = rec
SetUser(us, key, rec) ==
    IF HasKey(us, key) THEN [us EXCEPT ![IndexOfKey(us, key)] = rec]
    ELSE Append(us, rec)

\* delete users[key]
DeleteKey(us, key) ==
    LET i == IndexOfKey(us, key)
    IN  IF i = 0 THEN us
        ELSE SubSeq(us, 1, i - 1) \o SubSeq(us, i + 1, Len(us))

\* JSON.parse(JSON.stringify(users)) as saveUsers writes it and getUsers reads it
JsonUsers(us) == [i \in DOMAIN us |-> [us[i] EXCEPT !.balance = JsonNumber(@)]]

\* JSON round trip of one transaction
JsonTransaction(t) == [t EXCEPT !.amount = JsonNumber(@)]

---------------------------------------------------------------------------
(* Inputs of the requests *)

AdminEmail == <<"j">>
Admin2Email == <<"r">>

\* e-mail addresses typed into sign-up and create-user forms
SignupEmails == {<<"a">>, <<"A">>}
\* e-mail addresses by which an administrator names the target of a request
TargetEmails == {<<"A">>, <<"J">>}
\* amounts typed by an administrator
Amounts == {<<"5", "0">>, <<"0">>, <<"-", "5", "0">>, <<"a", "b", "c">>,
            InfinityLiteral}

\* the adminId cookie of a request: the first administrator, any account
\* that was not seeded, or no cookie
AdminCookies == (Keys(users) \ {adminId2}) \cup {Undefined}
\* the userId cookie of a request: the same accounts, or no cookie
UserCookies == (Keys(users) \ {adminId2}) \cup {Undefined}

---------------------------------------------------------------------------
(* Session middleware *)

\* requireUserLogin: the request goes on to the handler
requireUserLogin(us, userId) == userId # Undefined /\ HasKey(us, userId)

\* the middleware without the test of the role
requireAdminLoginAnyRole(us, adminId) ==
    /\ adminId # Undefined
    /\ HasKey(us, adminId)

\* requireAdminLogin: the request goes on to the handler
requireAdminLogin(us, adminId) ==
    /\ adminId # Undefined
    /\ HasKey(us, adminId)
    /\ GetUser(us, adminId).role = "admin"

---------------------------------------------------------------------------
(* Responses *)

NoNumber == [k |-> "undefined", v |-> 0]

Response(op, success, error, newBalance) ==
    [op |-> op, success |-> success, error |-> error, newBalance |-> newBalance]

Ok(op) == Response(op, TRUE, "", NoNumber)
Fail(op, error) == Response(op, FALSE, error, NoNumber)
Redirect(op, where) == Response(op, FALSE, where, NoNumber)

---------------------------------------------------------------------------
(* Record store *)

\* the write that does not reach the file
saveTransactionLost(txs, transaction) == txs

\* saveTransaction: read the document, push, write it back
saveTransaction(txs, transaction) == Append(txs, JsonTransaction(transaction))

\* saveGiftCardSubmission
saveGiftCardSubmission(subs, submission) ==
    Append(subs, [submission EXCEPT !.activationFee = JsonNumber(@)])

\* saveAdminLog that pushes the entry to an empty list
saveAdminLogAlone(logs, action, adminId, details) ==
    <<[action |-> action, adminId |-> adminId, details |-> details]>>

\* saveAdminLog: getAdminLogs returns [] when the read fails, and the catch
\* of saveAdminLog returns false when the write fails
saveAdminLog(logs, action, adminId, details) ==
    LET entry == [action |-> action, adminId |-> adminId, details |-> details]
    IN  IF audit = "unwritable" THEN logs
        ELSE IF audit = "unreadable" THEN <<entry>>
        ELSE Append(logs, entry)

\* saveUsers
saveUsers(us) == JsonUsers(us)

---------------------------------------------------------------------------
(* The data files.  At this level a document is a sequence of opaque
   entries: what matters is which document a file holds.  "admin" stands
   for the seeded administrators of users.json. *)

\* users.json, and transactions.json for the collections kept as lists
\* (admin logs, payment and gift-card submissions have the same code)
Collections == {"users", "transactions"}
Lists == Collections \ {"users"}

Main(c) == IF c = "users" THEN "users.json" ELSE "transactions.json"
Backup(c) == IF c = "users" THEN "users.json.backup" ELSE "transactions.json.backup"
AutoSaveFile(c) ==
    IF c = "users" THEN "users.json.autosave" ELSE "transactions.json.autosave"
USERS_FILE == Main("users")
USERS_BACKUP == Backup("users")
USERS_AUTOSAVE == AutoSaveFile("users")
FileNames == UNION {{Main(c), Backup(c), AutoSaveFile(c)} : c \in Collections}

\* what a file holds: nothing (no such file), only white space, text that
\* JSON.parse refuses, or JSON.stringify(doc, null, 2)
Missing == [kind |-> "missing", doc |-> <<>>]
Blank == [kind |-> "blank", doc |-> <<>>]
Malformed == [kind |-> "malformed", doc |-> <<>>]
Json(doc) == [kind |-> "json", doc |-> doc]

\* fs.existsSync(file)
existsSync(content) == content.kind # "missing"
\* data.trim() === ''
IsBlank(content) == content.kind = "blank"
\* JSON.parse(data) does not throw
Parses(content) == content.kind = "json"

\* {} for users.json, [] for the other collections
DefaultDocument == <<>>

\* what is left in a file when the process dies inside writeFileSync: the
\* file truncated, or a proper prefix of the document
PartialWrites == {Blank, Malformed}

\* fs.existsSync(USERS_AUTOSAVE) with backupData.trim() !== ''
Restorable(fs) == existsSync(fs[USERS_AUTOSAVE]) /\ ~IsBlank(fs[USERS_AUTOSAVE])

\* getUsers when the users file is blank or does not parse: the autosave
\* copy is written over it and parsed, {} when there is none or it does
\* not parse either
RestoredUsers(fs) ==
    IF Restorable(fs)
        THEN [files |-> [fs EXCEPT ![USERS_FILE] = fs[USERS_AUTOSAVE]],
              value |-> IF Parses(fs[USERS_AUTOSAVE]) THEN fs[USERS_AUTOSAVE].doc
                        ELSE DefaultDocument]
    ELSE [files |-> fs, value |-> DefaultDocument]

\* getUsers without the autosave copy
getUsersNoRestore(fs) ==
    IF ~existsSync(fs[USERS_FILE])
        THEN [files |-> [fs EXCEPT ![USERS_FILE] = Json(DefaultDocument)],
              value |-> DefaultDocument]
    ELSE IF Parses(fs[USERS_FILE])
        THEN [files |-> fs, value |-> fs[USERS_FILE].doc]
    ELSE [files |-> fs, value |-> DefaultDocument]

\* getUsers: the files afterwards and the value returned
getUsers(fs) ==
    LET fs1 == IF ~existsSync(fs[USERS_FILE]) /\ Restorable(fs)
                   THEN [fs EXCEPT ![USERS_FILE] = fs[USERS_AUTOSAVE]]
               ELSE fs
    IN  IF ~existsSync(fs1[USERS_FILE])
            THEN [files |-> [fs1 EXCEPT ![USERS_FILE] = Json(DefaultDocument)],
                  value |-> DefaultDocument]
        ELSE IF IsBlank(fs1[USERS_FILE])
            THEN RestoredUsers(fs1)
        ELSE IF Parses(fs1[USERS_FILE])
            THEN [files |-> fs1, value |-> fs1[USERS_FILE].doc]
        ELSE RestoredUsers(fs1)

\* saveUsers up to the write of the users file: the backup and the autosave
\* copy of what the file holds
BackedUpUsers(fs) ==
    IF existsSync(fs[USERS_FILE]) /\ ~IsBlank(fs[USERS_FILE])
        THEN [fs EXCEPT ![USERS_BACKUP] = fs[USERS_FILE],
                        ![USERS_AUTOSAVE] = fs[USERS_FILE]]
    ELSE fs

\* saveUsers on the files
saveUsersTo(fs, us) ==
    [BackedUpUsers(fs) EXCEPT ![USERS_FILE] = Json(us), ![USERS_AUTOSAVE] = Json(us)]

\* saveUsers cut short inside the write of the users file
saveUsersCrashed(fs, us, partial) ==
    [BackedUpUsers(fs) EXCEPT ![USERS_FILE] = partial]

\* getTransactions
getList(fs, c) ==
    IF ~existsSync(fs[Main(c)]) THEN DefaultDocument
    ELSE IF IsBlank(fs[Main(c)]) THEN DefaultDocument
    ELSE IF Parses(fs[Main(c)]) THEN fs[Main(c)].doc
    ELSE DefaultDocument

\* saveTransaction on the files
saveListTo(fs, c, entry) ==
    LET doc == Append(getList(fs, c), entry)
    IN  [fs EXCEPT ![Main(c)] = Json(doc), ![AutoSaveFile(c)] = Json(doc)]

\* the same cut short inside the write of the main file
saveListCrashed(fs, c, entry, partial) == [fs EXCEPT ![Main(c)] = partial]

\* restoreFile of restoreDataFromBackup: what the main file holds afterwards
restoreFile(fs, c) ==
    IF ~existsSync(fs[Main(c)]) \/ IsBlank(fs[Main(c)])
        THEN IF existsSync(fs[AutoSaveFile(c)]) /\ ~IsBlank(fs[AutoSaveFile(c)])
                 THEN fs[AutoSaveFile(c)]
             ELSE Json(DefaultDocument)
    ELSE fs[Main(c)]

\* initializeFile of initializeDataDirectory, on what restoreFile left
initializeFile(content) ==
    IF ~existsSync(content) \/ IsBlank(content) THEN Json(DefaultDocument)
    ELSE IF Parses(content) THEN content
    ELSE Json(DefaultDocument)

initializeDataDirectory(fs) ==
    [f \in FileNames |->
        IF \E c \in Collections : f = Main(c)
            THEN LET c == CHOOSE c \in Collections : f = Main(c)
                 IN  initializeFile(restoreFile(fs, c))
        ELSE fs[f]]

\* initializeDefaultAdmin on the files
seedDefaultAdmin(fs) ==
    LET loadedUsers == getUsers(fs)
    IN  IF \E i \in DOMAIN loadedUsers.value : loadedUsers.value[i] = "admin"
            THEN loadedUsers.files
        ELSE saveUsersTo(loadedUsers.files, Append(loadedUsers.value, "admin"))

\* initializeServer
initializeServer(fs) == seedDefaultAdmin(initializeDataDirectory(fs))

\* one tick of autoSaveData
autoSaveData(fs) ==
    LET loadedUsers == getUsers(fs)
    IN  [f \in FileNames |->
            IF f = USERS_AUTOSAVE THEN Json(loadedUsers.value)
            ELSE IF \E c \in Lists : f = AutoSaveFile(c)
                THEN LET c == CHOOSE c \in Lists : f = AutoSaveFile(c)
                     IN  Json(getList(fs, c))
            ELSE loadedUsers.files[f]]

\* the document with its first entry awaiting a decision marked as decided:
\* submissions.find(...) or transactions.find(...), then the assignments to
\* the object found
Decided(doc, mark) ==
    IF \E i \in DOMAIN doc : doc[i] = "x"
        THEN LET i == CHOOSE i \in DOMAIN doc :
                        doc[i] = "x" /\ \A j \in 1..(i - 1) : doc[j] # "x"
             IN  [doc EXCEPT ![i] = mark]
    ELSE doc

\* approve-giftcard on the files: the list is written to its main file with
\* fs.writeFileSync, around the saveUsers of the activated user; nothing is
\* written when no submission is found
approveGiftcardOn(fs, c) ==
    IF Decided(getList(fs, c), "approved") = getList(fs, c) THEN fs
    ELSE LET doc == Decided(getList(fs, c), "approved")
             loadedUsers == getUsers(fs)
         IN  [saveUsersTo(loadedUsers.files, Decided(loadedUsers.value, "activated"))
                 EXCEPT ![Main(c)] = Json(doc)]

\* reject-giftcard on the files
rejectGiftcardOn(fs, c) ==
    IF Decided(getList(fs, c), "rejected") = getList(fs, c) THEN fs
    ELSE [fs EXCEPT ![Main(c)] = Json(Decided(getList(fs, c), "rejected"))]

---------------------------------------------------------------------------
(* User directory *)

SameEmail(stored, email) == toLowerCase(stored) = toLowerCase(email)

\* for (const [userId, user] of Object.entries(users)) ... break: the index of
\* the first record whose email matches, 0 when there is none
FindByEmail(us, email) ==
    IF \E i \in DOMAIN us : SameEmail(us[i].email, email)
        THEN CHOOSE i \in DOMAIN us :
                /\ SameEmail(us[i].email, email)
                /\ \A j \in 1..(i - 1) : ~SameEmail(us[j].email, email)
    ELSE 0

\* the duplicate check of signup and create-user
EmailExists(us, email) == \E i \in DOMAIN us : SameEmail(us[i].email, email)

\* the seeded administrators (initializeDefaultAdmin)
DefaultAdmin(id, email, t) ==
    [id |-> id, name |-> "PayPal", email |-> email, password |-> "seed",
     balance |-> Num(1000000), role |-> "admin", created |-> ISOString(t),
     status |-> "active", adminLevel |-> "super", createdBy |-> Undefined,
     activated |-> TRUE]

initializeDefaultAdmin(us, t) ==
    LET us1 == IF ~HasKey(us, adminId1)
                   THEN SetUser(us, adminId1, DefaultAdmin(adminId1, AdminEmail, t))
               ELSE us
        us2 == IF ~HasKey(us1, adminId2)
                   THEN SetUser(us1, adminId2, DefaultAdmin(adminId2, Admin2Email, t))
               ELSE us1
    IN  IF us2 # us THEN saveUsers(us2) ELSE us

---------------------------------------------------------------------------
(* Ledger helpers *)

Transaction(type, from, fromId, to, toId, amount, note, paymentMethod, status) ==
    [type |-> type, from |-> from, fromId |-> fromId, to |-> to, toId |-> toId,
     amount |-> amount, note |-> note, paymentMethod |-> paymentMethod,
     status |-> status]

\* add-balance: if (isNaN(amountNum) || amountNum <= 0)
InvalidAmount(amountNum) == isNaN(amountNum) \/ JsLe(amountNum, Num(0))

\* the comparison with its operands swapped
InsufficientBalanceSwapped(balance, amountNum) == JsLt(amountNum, balance)

\* deduct-balance: if (targetUser.balance < amountNum)
InsufficientBalance(balance, amountNum) == JsLt(balance, amountNum)

\* the credit applied to the balance read before the other request's write
CreditedBalanceStale(balance, amountNum) == JsAdd(Num(0), amountNum)

\* add-balance: targetUser.balance += amountNum
CreditedBalance(balance, amountNum) == JsAdd(balance, amountNum)

\* the debit with the sign of the credit
DebitedBalanceAdded(balance, amountNum) == JsAdd(balance, amountNum)

\* deduct-balance: targetUser.balance -= amountNum
DebitedBalance(balance, amountNum) == JsSub(balance, amountNum)

---------------------------------------------------------------------------
(* What a handler leaves behind: the documents it wrote and its response *)

\* the handler gives up when the admin log fails
OutcomeUnlessAuditFailed(us, txs, subs, logs, response) ==
    IF audit = "ok"
        THEN [users |-> us, transactions |-> txs, giftCardSubmissions |-> subs,
              adminLogs |-> logs, res |-> response]
    ELSE [users |-> users, transactions |-> transactions,
          giftCardSubmissions |-> giftCardSubmissions, adminLogs |-> adminLogs,
          res |-> Fail(response.op, "Server error")]

Outcome(us, txs, subs, logs, response) ==
    [users |-> us, transactions |-> txs, giftCardSubmissions |-> subs,
     adminLogs |-> logs, res |-> response]

\* the handler returned without writing
Refused(response) ==
    Outcome(users, transactions, giftCardSubmissions, adminLogs, response)

Becomes(o) ==
    /\ users' = o.users
    /\ transactions' = o.transactions
    /\ giftCardSubmissions' = o.giftCardSubmissions
    /\ adminLogs' = o.adminLogs
    /\ res' = o.res
    /\ UNCHANGED <<audit, storeVars>>

---------------------------------------------------------------------------
(* State after initializeServer on an empty data directory *)

Init ==
    /\ now = 0
    /\ users = initializeDefaultAdmin(<<>>, 0)
    /\ transactions = <<>>
    /\ giftCardSubmissions = <<>>
    /\ adminLogs = <<>>
    /\ uploading = {}
    /\ res = Ok("start")
    /\ audit = "ok"
    /\ files = initializeServer([f \in FileNames |-> Missing])
    /\ loaded = [collection |-> "users", found |-> Missing, value |-> DefaultDocument]

\* a restart of the process: requests in flight are lost, missing seeded
\* administrators are created again
Restart ==
    \E t \in Clock :
        /\ now' = t
        /\ users' = initializeDefaultAdmin(users, t)
        /\ uploading' = {}
        /\ res' = Ok("start")
        /\ UNCHANGED <<transactions, giftCardSubmissions, adminLogs, audit, storeVars>>

---------------------------------------------------------------------------
(* POST /signup *)

NewUser(userId, name, email, t) ==
    [id |-> userId, name |-> name, email |-> toLowerCase(email), password |-> "pw",
     balance |-> Num(0), role |-> "user", created |-> ISOString(t),
     status |-> "active", adminLevel |-> "undefined", createdBy |-> Undefined,
     activated |-> FALSE]

SignupResult(name, email, t) ==
    IF EmailExists(users, email)
        THEN Refused(Fail("signup", "Email already exists"))
    ELSE Outcome(saveUsers(SetUser(users, UserId(t), NewUser(UserId(t), name, email, t))),
                 transactions, giftCardSubmissions, adminLogs, Ok("signup"))

Signup(name, email, t) ==
    /\ Len(SignupResult(name, email, t).users) <= MaxUsers
    /\ now' = t
    /\ Becomes(SignupResult(name, email, t))
    /\ UNCHANGED uploading

---------------------------------------------------------------------------
(* POST /api/admin/add-balance *)

AddBalanceResult(adminId, email, amount) ==
    IF ~requireAdminLogin(users, adminId)
        THEN Refused(Redirect("add-balance", "/admin-login"))
    ELSE IF FindByEmail(users, email) = 0
        THEN Refused(Fail("add-balance", "User not found"))
    ELSE IF InvalidAmount(parseFloat(amount))
        THEN Refused(Fail("add-balance", "Invalid amount"))
    ELSE LET targetUser == users[FindByEmail(users, email)]
             amountNum == parseFloat(amount)
             oldBalance == targetUser.balance
             newBalance == CreditedBalance(oldBalance, amountNum)
         IN  Outcome(
                saveUsers(SetUser(users, targetUser.id,
                                  [targetUser EXCEPT !.balance = newBalance])),
                saveTransaction(transactions,
                    Transaction("admin_credit", ADMIN, adminId, targetUser.id,
                                Undefined, amountNum,
                                <<"Admin credit by", GetUser(users, adminId).name>>,
                                "undefined", "undefined")),
                giftCardSubmissions,
                saveAdminLog(adminLogs, "add_balance", adminId,
                    [targetUser |-> targetUser.id, amount |-> JsonNumber(amountNum),
                     oldBalance |-> oldBalance, newBalance |-> JsonNumber(newBalance)]),
                Response("add-balance", TRUE, "", JsonNumber(newBalance)))

AddBalance(adminId, email, amount) ==
    /\ Len(adminLogs) < MaxLogs
    /\ Becomes(AddBalanceResult(adminId, email, amount))
    /\ UNCHANGED <<uploading, now>>

---------------------------------------------------------------------------
(* POST /api/admin/deduct-balance *)

DeductBalanceResult(adminId, email, amount) ==
    IF ~requireAdminLogin(users, adminId)
        THEN Refused(Redirect("deduct-balance", "/admin-login"))
    ELSE IF FindByEmail(users, email) = 0
        THEN Refused(Fail("deduct-balance", "User not found"))
    ELSE IF InsufficientBalance(users[FindByEmail(users, email)].balance,
                                parseFloat(amount))
        THEN Refused(Fail("deduct-balance", "Insufficient balance"))
    ELSE LET targetUser == users[FindByEmail(users, email)]
             amountNum == parseFloat(amount)
             oldBalance == targetUser.balance
             newBalance == DebitedBalance(oldBalance, amountNum)
         IN  Outcome(
                saveUsers(SetUser(users, targetUser.id,
                                  [targetUser EXCEPT !.balance = newBalance])),
                saveTransaction(transactions,
                    Transaction("admin_debit", targetUser.id, Undefined, ADMIN,
                                adminId, amountNum,
                                <<"Admin debit by", GetUser(users, adminId).name>>,
                                "undefined", "undefined")),
                giftCardSubmissions,
                saveAdminLog(adminLogs, "deduct_balance", adminId,
                    [targetUser |-> targetUser.id, amount |-> JsonNumber(amountNum),
                     oldBalance |-> oldBalance, newBalance |-> JsonNumber(newBalance)]),
                Response("deduct-balance", TRUE, "", JsonNumber(newBalance)))

DeductBalance(adminId, email, amount) ==
    /\ Len(adminLogs) < MaxLogs
    /\ Becomes(DeductBalanceResult(adminId, email, amount))
    /\ UNCHANGED <<uploading, now>>

---------------------------------------------------------------------------
(* The ledger: sign-up, credit and debit *)

NextLedger ==
    \/ \E email \in SignupEmails, t \in Clock : Signup("n1", email, t)
    \/ \E adminId \in AdminCookies, email \in TargetEmails, amount \in Amounts :
            AddBalance(adminId, email, amount)
    \/ \E adminId \in AdminCookies, email \in TargetEmails, amount \in Amounts :
            DeductBalance(adminId, email, amount)

SpecLedger == Init /\ [][NextLedger]_vars

---------------------------------------------------------------------------
(* POST /api/admin/update-user *)

\* the list without 'created'
restrictedFieldsShort == {"id", "createdBy"}

restrictedFields == {"id", "created", "createdBy"}

\* targetUser[field] = value
UpdatedUser(targetUser, field, value) == [targetUser EXCEPT ![field] = value]

\* the values an administrator sends for a field
FieldValues(field) ==
    CASE field = "name" -> {"n2"}
      [] field = "email" -> {<<"A">>, <<"j">>}
      [] field = "role" -> {"user"}
      [] field = "activated" -> {TRUE}
      [] field = "id" -> {adminId2}
      [] field = "created" -> {ISOString(MaxClock)}
      [] field = "createdBy" -> {adminId1}

Fields == {"name", "email", "role", "activated", "id", "created", "createdBy"}

UpdateUserResult(adminId, email, field, value) ==
    IF ~requireAdminLogin(users, adminId)
        THEN Refused(Redirect("update-user", "/admin-login"))
    ELSE IF FindByEmail(users, email) = 0
        THEN Refused(Fail("update-user", "User not found"))
    ELSE IF field \in restrictedFields
        THEN Refused(Fail("update-user", "Cannot update field"))
    ELSE LET targetUser == users[FindByEmail(users, email)]
         IN  Outcome(
                saveUsers(SetUser(users, targetUser.id,
                                  UpdatedUser(targetUser, field, value))),
                transactions, giftCardSubmissions,
                saveAdminLog(adminLogs, "update_user", adminId,
                    [targetUser |-> targetUser.id, field |-> field]),
                Ok("update-user"))

UpdateUser(adminId, email, field, value) ==
    /\ Len(adminLogs) < MaxLogs
    /\ Becomes(UpdateUserResult(adminId, email, field, value))
    /\ UNCHANGED <<uploading, now>>

---------------------------------------------------------------------------
(* POST /api/admin/create-user *)

\* role || 'user'
RoleOrUser(role) == IF role = "undefined" THEN "user" ELSE role

CreatedUser(userId, adminId, name, email, initialBalance, role, t) ==
    [id |-> userId, name |-> name, email |-> toLowerCase(email), password |-> "pw",
     balance |-> OrZero(parseFloat(initialBalance)), role |-> RoleOrUser(role),
     created |-> ISOString(t), status |-> "active", adminLevel |-> "undefined",
     createdBy |-> adminId, activated |-> (role = "admin")]

CreateUserResult(adminId, name, email, initialBalance, role, t) ==
    IF ~requireAdminLogin(users, adminId)
        THEN Refused(Redirect("create-user", "/admin-login"))
    ELSE IF EmailExists(users, email)
        THEN Refused(Fail("create-user", "Email already exists"))
    ELSE Outcome(
            saveUsers(SetUser(users, AdminCreatedId(t),
                        CreatedUser(AdminCreatedId(t), adminId, name, email,
                                    initialBalance, role, t))),
            transactions, giftCardSubmissions,
            saveAdminLog(adminLogs, "create_user", adminId,
                [userId |-> AdminCreatedId(t),
                 initialBalance |-> JsonNumber(OrZero(parseFloat(initialBalance))),
                 role |-> RoleOrUser(role)]),
            Ok("create-user"))

CreateUser(adminId, name, email, initialBalance, role, t) ==
    /\ Len(adminLogs) < MaxLogs
    /\ Len(CreateUserResult(adminId, name, email, initialBalance, role, t).users)
           <= MaxUsers
    /\ now' = t
    /\ Becomes(CreateUserResult(adminId, name, email, initialBalance, role, t))
    /\ UNCHANGED uploading

---------------------------------------------------------------------------
(* POST /api/admin/delete-user *)

\* the test without the exception for the acting administrator
ProtectedAdminAlso(targetUser, adminId) ==
    targetUser.role = "admin"

\* if (targetUser.role === 'admin' && targetUserId !== req.adminId)
ProtectedAdmin(targetUser, adminId) ==
    targetUser.role = "admin" /\ targetUser.id # adminId

DeleteUserResult(adminId, email) ==
    IF ~requireAdminLogin(users, adminId)
        THEN Refused(Redirect("delete-user", "/admin-login"))
    ELSE IF FindByEmail(users, email) = 0
        THEN Refused(Fail("delete-user", "User not found"))
    ELSE IF ProtectedAdmin(users[FindByEmail(users, email)], adminId)
        THEN Refused(Fail("delete-user", "Cannot delete other admins"))
    ELSE LET targetUser == users[FindByEmail(users, email)]
         IN  Outcome(
                saveUsers(DeleteKey(users, targetUser.id)),
                transactions, giftCardSubmissions,
                saveAdminLog(adminLogs, "delete_user", adminId,
                    [deletedUser |-> targetUser.id, balance |-> targetUser.balance]),
                Ok("delete-user"))

DeleteUser(adminId, email) ==
    /\ Len(adminLogs) < MaxLogs
    /\ Becomes(DeleteUserResult(adminId, email))
    /\ UNCHANGED <<uploading, now>>

---------------------------------------------------------------------------
(* The user directory: seeding, sign-up, create, update and delete *)

\* e-mail addresses by which an administrator names a record of the directory
DirectoryEmails == {<<"A">>, <<"J">>, <<"r">>}
\* the role field of a create-user request
CreateRoles == {"undefined", "admin"}

NextDirectory ==
    \/ Restart
    \/ \E email \in SignupEmails, t \in Clock : Signup("n1", email, t)
    \/ \E adminId \in AdminCookies, email \in SignupEmails, role \in CreateRoles,
          t \in Clock :
            CreateUser(adminId, "n1", email, <<"5", "0">>, role, t)
    \/ \E adminId \in AdminCookies, email \in DirectoryEmails, field \in Fields :
            \E value \in FieldValues(field) : UpdateUser(adminId, email, field, value)
    \/ \E adminId \in AdminCookies, email \in DirectoryEmails : DeleteUser(adminId, email)

SpecDirectory == Init /\ [][NextDirectory]_vars

\* the accounts and their roles: the directory with update-user on the role
\* alone
NextAccounts ==
    \/ Restart
    \/ \E email \in SignupEmails, t \in Clock : Signup("n1", email, t)
    \/ \E adminId \in AdminCookies, email \in SignupEmails, role \in CreateRoles,
          t \in Clock :
            CreateUser(adminId, "n1", email, <<"5", "0">>, role, t)
    \/ \E adminId \in AdminCookies, email \in DirectoryEmails :
            \E value \in FieldValues("role") : UpdateUser(adminId, email, "role", value)
    \/ \E adminId \in AdminCookies, email \in DirectoryEmails : DeleteUser(adminId, email)

SpecAccounts == Init /\ [][NextAccounts]_vars

---------------------------------------------------------------------------
(* Activation payments *)

\* the request as requireUserLogin hands it on: req.userId and req.user
Request(us, userId) == [userId |-> userId, user |-> GetUser(us, userId)]

\* requireUserLogin of POST /activation-payment/giftcard, followed by the
\* multipart upload, during which other requests are served; the model has
\* one upload in flight at a time
GiftcardUpload(userId) ==
    /\ uploading = {}
    /\ IF requireUserLogin(users, userId)
           THEN /\ uploading' = uploading \cup {Request(users, userId)}
                /\ UNCHANGED res
       ELSE /\ res' = Redirect("giftcard", "/login")
            /\ UNCHANGED uploading
    /\ UNCHANGED <<users, transactions, giftCardSubmissions, adminLogs, now,
                   audit, storeVars>>

\* the submission recorded as already approved
GiftCardSubmissionApproved(req, activationFee, t) ==
    [userId |-> req.userId, userName |-> req.user.name, userEmail |-> req.user.email,
     activationFee |-> activationFee, status |-> "approved", timestamp |-> ISOString(t),
     approvedBy |-> Undefined, approvedAt |-> Undefined,
     rejectedBy |-> Undefined, rejectedAt |-> Undefined,
     rejectionReason |-> "undefined"]

GiftCardSubmission(req, activationFee, t) ==
    [userId |-> req.userId, userName |-> req.user.name, userEmail |-> req.user.email,
     activationFee |-> activationFee, status |-> "pending", timestamp |-> ISOString(t),
     approvedBy |-> Undefined, approvedAt |-> Undefined,
     rejectedBy |-> Undefined, rejectedAt |-> Undefined,
     rejectionReason |-> "undefined"]

\* the handler of POST /activation-payment/giftcard, once the upload is over
GiftcardPaymentResult(req, frontImage, backImage, t) ==
    IF ~frontImage \/ ~backImage
        THEN Refused(Fail("giftcard", "Both images are required"))
    ELSE LET activationFee == TimesFeeRate(req.user.balance)
         IN  Outcome(
                users,
                saveTransaction(transactions,
                    Transaction("activation_fee", req.userId, Undefined, System,
                                Undefined, activationFee,
                                <<"Activation fee via gift card (pending verification)", "">>,
                                "giftcard", "pending")),
                saveGiftCardSubmission(giftCardSubmissions,
                    GiftCardSubmission(req, activationFee, t)),
                saveAdminLog(adminLogs, "activation_payment", System,
                    [userId |-> req.userId, amount |-> JsonNumber(activationFee),
                     method |-> "giftcard", status |-> "pending"]),
                Ok("giftcard"))

GiftcardPayment(req, frontImage, backImage, t) ==
    /\ req \in uploading
    /\ Len(transactions) < MaxPayments
    /\ now' = t
    /\ uploading' = uploading \ {req}
    /\ Becomes(GiftcardPaymentResult(req, frontImage, backImage, t))

\* POST /activation-payment/usdt
UsdtPaymentResult(userId, transactionId) ==
    IF ~requireUserLogin(users, userId)
        THEN Refused(Redirect("usdt", "/login"))
    ELSE IF transactionId = ""
        THEN Refused(Fail("usdt", "Transaction ID is required"))
    ELSE LET req == Request(users, userId)
             activationFee == TimesFeeRate(req.user.balance)
         IN  Outcome(
                saveUsers(SetUser(users, userId,
                                  [GetUser(users, userId) EXCEPT !.activated = TRUE])),
                saveTransaction(transactions,
                    Transaction("activation_fee", userId, Undefined, System,
                                Undefined, activationFee,
                                <<"Activation fee via USDT", transactionId>>,
                                "usdt", "completed")),
                giftCardSubmissions,
                saveAdminLog(adminLogs, "activation_payment", System,
                    [userId |-> userId, amount |-> JsonNumber(activationFee),
                     method |-> "usdt", status |-> "completed"]),
                Ok("usdt"))

UsdtPayment(userId, transactionId) ==
    /\ Len(transactions) < MaxPayments
    /\ Becomes(UsdtPaymentResult(userId, transactionId))
    /\ UNCHANGED <<uploading, now>>

---------------------------------------------------------------------------
(* POST /api/admin/approve-giftcard and /api/admin/reject-giftcard *)

MatchesSubmission(s, submissionId) ==
    s.timestamp = submissionId \/ s.userId = submissionId

\* the search that returns the last match
FindSubmissionLast(subs, submissionId) ==
    IF \E i \in DOMAIN subs : MatchesSubmission(subs[i], submissionId)
        THEN CHOOSE i \in DOMAIN subs :
                /\ MatchesSubmission(subs[i], submissionId)
                /\ \A j \in (i + 1)..Len(subs) : ~MatchesSubmission(subs[j], submissionId)
    ELSE 0

\* submissions.find(s => s.timestamp === submissionId || s.userId === submissionId):
\* the index of the first match, 0 when there is none
FindSubmission(subs, submissionId) ==
    IF \E i \in DOMAIN subs : MatchesSubmission(subs[i], submissionId)
        THEN CHOOSE i \in DOMAIN subs :
                /\ MatchesSubmission(subs[i], submissionId)
                /\ \A j \in 1..(i - 1) : ~MatchesSubmission(subs[j], submissionId)
    ELSE 0

\* the match without the test of the status
PendingGiftcardAnyStatus(t, userId) ==
    t.from = userId /\ t.paymentMethod = "giftcard"

\* t.from === submission.userId && t.paymentMethod === 'giftcard' &&
\* t.status === 'pending'
PendingGiftcard(t, userId) ==
    t.from = userId /\ t.paymentMethod = "giftcard" /\ t.status = "pending"

\* the search that finds nothing
FindPendingGiftcardNone(txs, userId) == 0

\* transactions.find(...): the index of the first match, 0 when there is none
FindPendingGiftcard(txs, userId) ==
    IF \E i \in DOMAIN txs : PendingGiftcard(txs[i], userId)
        THEN CHOOSE i \in DOMAIN txs :
                /\ PendingGiftcard(txs[i], userId)
                /\ \A j \in 1..(i - 1) : ~PendingGiftcard(txs[j], userId)
    ELSE 0

\* the approvals and rejections written to the admin log so far
DecisionsLogged ==
    Cardinality({i \in DOMAIN adminLogs :
                    adminLogs[i].action \in {"approve_giftcard", "reject_giftcard"}})

ApprovedSubmission(submission, adminId, t) ==
    [submission EXCEPT !.status = "approved", !.approvedBy = adminId,
                       !.approvedAt = ISOString(t)]

\* the completion that also clears the amount
CompletedTransactionCleared(transaction) ==
    [transaction EXCEPT !.status = "completed", !.amount = Null,
                        !.note = <<"Gift card payment approved by admin", "">>]

CompletedTransaction(transaction) ==
    [transaction EXCEPT !.status = "completed",
                        !.note = <<"Gift card payment approved by admin", "">>]

ApproveGiftcardResult(adminId, submissionId, t) ==
    IF ~requireAdminLogin(users, adminId)
        THEN Refused(Redirect("approve-giftcard", "/admin-login"))
    ELSE IF FindSubmission(giftCardSubmissions, submissionId) = 0
        THEN Refused(Fail("approve-giftcard", "Submission not found"))
    ELSE LET i == FindSubmission(giftCardSubmissions, submissionId)
             submission == ApprovedSubmission(giftCardSubmissions[i], adminId, t)
             activatedUsers ==
                 IF HasKey(users, submission.userId)
                     THEN SetUser(users, submission.userId,
                             [GetUser(users, submission.userId) EXCEPT !.activated = TRUE])
                 ELSE users
             j == FindPendingGiftcard(transactions, submission.userId)
         IN  Outcome(
                saveUsers(activatedUsers),
                IF j # 0
                    THEN [transactions EXCEPT ![j] = CompletedTransaction(@)]
                ELSE transactions,
                [giftCardSubmissions EXCEPT ![i] = submission],
                saveAdminLog(adminLogs, "approve_giftcard", adminId,
                    [userId |-> submission.userId, amount |-> submission.activationFee,
                     submissionId |-> submissionId]),
                Ok("approve-giftcard"))

ApproveGiftcard(adminId, submissionId, t) ==
    /\ DecisionsLogged < MaxDecisions
    /\ now' = t
    /\ Becomes(ApproveGiftcardResult(adminId, submissionId, t))
    /\ UNCHANGED uploading

\* reason || 'No reason provided'
ReasonOrDefault(reason) == IF reason = "" THEN "No reason provided" ELSE reason

\* the rejection without rejectedBy
RejectedSubmissionUnsigned(submission, adminId, reason, t) ==
    [submission EXCEPT !.status = "rejected", !.rejectedAt = ISOString(t),
                       !.rejectionReason = ReasonOrDefault(reason)]

RejectedSubmission(submission, adminId, reason, t) ==
    [submission EXCEPT !.status = "rejected", !.rejectedBy = adminId,
                       !.rejectedAt = ISOString(t),
                       !.rejectionReason = ReasonOrDefault(reason)]

RejectGiftcardResult(adminId, submissionId, reason, t) ==
    IF ~requireAdminLogin(users, adminId)
        THEN Refused(Redirect("reject-giftcard", "/admin-login"))
    ELSE IF FindSubmission(giftCardSubmissions, submissionId) = 0
        THEN Refused(Fail("reject-giftcard", "Submission not found"))
    ELSE LET i == FindSubmission(giftCardSubmissions, submissionId)
             submission == RejectedSubmission(giftCardSubmissions[i], adminId, reason, t)
         IN  Outcome(
                users, transactions,
                [giftCardSubmissions EXCEPT ![i] = submission],
                saveAdminLog(adminLogs, "reject_giftcard", adminId,
                    [userId |-> submission.userId, reason |-> reason,
                     submissionId |-> submissionId]),
                Ok("reject-giftcard"))

RejectGiftcard(adminId, submissionId, reason, t) ==
    /\ DecisionsLogged < MaxDecisions
    /\ now' = t
    /\ Becomes(RejectGiftcardResult(adminId, submissionId, reason, t))
    /\ UNCHANGED uploading

---------------------------------------------------------------------------
(* The submission workflow: sign-up, payments, approval and rejection *)

\* the submissionId of a request: the timestamp or the user of a recorded
\* submission, or one that matches nothing
SubmissionIds ==
    {giftCardSubmissions[i].timestamp : i \in DOMAIN giftCardSubmissions}
        \cup {giftCardSubmissions[i].userId : i \in DOMAIN giftCardSubmissions}
        \cup {Undefined}

Reasons == {"", "blurred"}

NextWorkflow ==
    \/ \E t \in Clock : Signup("n1", <<"a">>, t)
    \/ \E userId \in UserCookies : GiftcardUpload(userId)
    \/ \E req \in uploading, backImage \in BOOLEAN, t \in Clock :
            GiftcardPayment(req, TRUE, backImage, t)
    \/ \E userId \in UserCookies, transactionId \in {"", "tx"} :
            UsdtPayment(userId, transactionId)
    \/ \E adminId \in AdminCookies, submissionId \in SubmissionIds, t \in Clock :
            ApproveGiftcard(adminId, submissionId, t)
    \/ \E adminId \in AdminCookies, submissionId \in SubmissionIds,
          reason \in Reasons, t \in Clock :
            RejectGiftcard(adminId, submissionId, reason, t)
    \/ \E adminId \in AdminCookies : DeleteUser(adminId, <<"a">>)

SpecWorkflow == Init /\ [][NextWorkflow]_vars

---------------------------------------------------------------------------
(* The activation scenario: a user signs up, an administrator credits the
   account, the user pays the activation fee by gift card and an
   administrator approves the submission. The requests are issued one after
   the other: no credit is made while an upload is in flight. *)

ScenarioAmounts == {<<"5", "0", "0">>, <<"5", "0">>}

NextScenario ==
    \/ \E t \in Clock : Signup("n1", <<"a">>, t)
    \/ \E adminId \in AdminCookies, amount \in ScenarioAmounts :
            uploading = {} /\ AddBalance(adminId, <<"A">>, amount)
    \/ \E userId \in UserCookies : GiftcardUpload(userId)
    \/ \E req \in uploading, backImage \in BOOLEAN, t \in Clock :
            GiftcardPayment(req, TRUE, backImage, t)
    \/ \E adminId \in AdminCookies, submissionId \in SubmissionIds, t \in Clock :
            ApproveGiftcard(adminId, submissionId, t)

SpecScenario == Init /\ [][NextScenario]_vars

---------------------------------------------------------------------------
(* The writers of the transaction log and of the activation: credits,
   debits, payments, approvals and rejections, with the requests of the
   first administrator and of the users who signed up, all at the same
   instant. *)

NextLog ==
    \/ Signup("n1", <<"a">>, now)
    \/ \E amount \in ScenarioAmounts : AddBalance(adminId1, <<"A">>, amount)
    \/ \E amount \in ScenarioAmounts : DeductBalance(adminId1, <<"A">>, amount)
    \/ \E userId \in Keys(users) \ {adminId1, adminId2} : GiftcardUpload(userId)
    \/ \E req \in uploading : GiftcardPayment(req, TRUE, TRUE, now)
    \/ \E userId \in Keys(users) \ {adminId1, adminId2} : UsdtPayment(userId, "tx")
    \/ \E submissionId \in SubmissionIds : ApproveGiftcard(adminId1, submissionId, now)
    \/ \E submissionId \in SubmissionIds :
            RejectGiftcard(adminId1, submissionId, "", now)

SpecLog == Init /\ [][NextLog]_vars

---------------------------------------------------------------------------
(* Gift-card payments whose upload overlaps with credits and debits: the
   requests of the administrators are served while the images of a payment
   are still being received. *)

NextInFlight ==
    \/ \E t \in Clock : Signup("n1", <<"a">>, t)
    \/ \E adminId \in AdminCookies, amount \in ScenarioAmounts :
            AddBalance(adminId, <<"A">>, amount)
    \/ \E adminId \in AdminCookies, amount \in ScenarioAmounts :
            DeductBalance(adminId, <<"A">>, amount)
    \/ \E userId \in UserCookies : GiftcardUpload(userId)
    \/ \E req \in uploading, backImage \in BOOLEAN, t \in Clock :
            GiftcardPayment(req, TRUE, backImage, t)

SpecInFlight == Init /\ [][NextInFlight]_vars

---------------------------------------------------------------------------
(* POST /admin-login and GET /admin-logout *)

\* for (const userId in users): the index of the first administrator with
\* that e-mail address and password, 0 when there is none
FindAdminLogin(us, email, password) ==
    LET Matches(i) == /\ SameEmail(us[i].email, email)
                      /\ us[i].password = password
                      /\ us[i].role = "admin"
    IN  IF \E i \in DOMAIN us : Matches(i)
            THEN CHOOSE i \in DOMAIN us :
                    Matches(i) /\ \A j \in 1..(i - 1) : ~Matches(j)
        ELSE 0

\* POST /admin-login: the cookie is set to the id of the record found
AdminLoginResult(email, password) ==
    IF FindAdminLogin(users, email, password) = 0
        THEN Refused(Fail("admin-login", "Invalid admin credentials!"))
    ELSE LET userId == users[FindAdminLogin(users, email, password)].id
         IN  Outcome(users, transactions, giftCardSubmissions,
                saveAdminLog(adminLogs, "login", userId, [email |-> email]),
                Response("admin-login", TRUE, "/admin-dashboard", NoNumber))

AdminLogin(email, password) ==
    /\ Len(adminLogs) < MaxLogs
    /\ Becomes(AdminLoginResult(email, password))
    /\ UNCHANGED <<uploading, now>>

\* GET /admin-logout: the route has no middleware, adminId is the cookie of
\* the request as it came
AdminLogoutResult(adminId) ==
    Outcome(users, transactions, giftCardSubmissions,
        saveAdminLog(adminLogs, "logout", adminId, <<>>),
        Response("admin-logout", TRUE, "/admin-login", NoNumber))

AdminLogout(adminId) ==
    /\ Len(adminLogs) < MaxLogs
    /\ Becomes(AdminLogoutResult(adminId))
    /\ UNCHANGED <<uploading, now>>

\* the passwords typed into the login form: that of the seeded
\* administrators, that of the users who signed up, and a wrong one
Passwords == {"seed", "pw", ""}

\* Sessions of administrators next to the requests that write the admin
\* log on behalf of users and that remove administrators
NextSession ==
    \/ \E t \in Clock : Signup("n1", <<"a">>, t)
    \/ \E email \in TargetEmails, password \in Passwords :
            AdminLogin(email, password)
    \/ \E adminId \in AdminCookies : AdminLogout(adminId)
    \/ \E userId \in UserCookies : UsdtPayment(userId, "tx")
    \/ \E adminId \in AdminCookies, email \in TargetEmails :
            DeleteUser(adminId, email)

SpecSession == Init /\ [][NextSession]_vars

---------------------------------------------------------------------------
(* src/server.js as a whole *)

Next ==
    \/ NextLedger
    \/ NextDirectory
    \/ NextWorkflow
    \/ NextSession

Spec == Init /\ [][Next]_vars

---------------------------------------------------------------------------
(* src/app.js: the older standalone server.  Its users document has the    *)
(* fields name, email, password, balance and role; the field id of the     *)
(* model is the key of the record in the object.                           *)

\* Date.now().toString()
AppUserId(t) == <<"", t>>
appAdminId == <<"admin123", 0>>
AppAdminEmail == <<"p">>

IsIndexKey(key) == key[1] = ""

\* users[key] = rec on an object whose integer-like keys enumerate first, in
\* ascending order, before the other keys
AppSetUser(us, key, rec) ==
    IF HasKey(us, key) THEN [us EXCEPT ![IndexOfKey(us, key)] = rec]
    ELSE IF ~IsIndexKey(key) THEN Append(us, rec)
    ELSE LET Before(u) == IsIndexKey(u.id) /\ u.id[2] < key[2]
             After(u) == ~Before(u)
         IN  SelectSeq(us, Before) \o <<rec>> \o SelectSeq(us, After)

\* if (users[userId].email === email)
AppEmailExists(us, email) == \E i \in DOMAIN us : us[i].email = email

AppInit ==
    /\ now = 0
    /\ users = <<>>
    /\ transactions = <<>>
    /\ giftCardSubmissions = <<>>
    /\ adminLogs = <<>>
    /\ uploading = {}
    /\ res = Ok("start")
    /\ audit = "ok"
    /\ files = [f \in FileNames |-> IF f = USERS_FILE THEN Json(DefaultDocument)
                                    ELSE Missing]
    /\ loaded = [collection |-> "users", found |-> Missing, value |-> DefaultDocument]

\* POST /signup of app.js
AppSignupResult(name, email, t) ==
    IF AppEmailExists(users, email)
        THEN Refused(Fail("app-signup", "Email already exists"))
    ELSE LET created == AppSetUser(users, AppUserId(t),
                            [id |-> AppUserId(t), name |-> name, email |-> email,
                             password |-> "pw", balance |-> Num(100), role |-> "user"])
             seeded == IF ~HasKey(created, appAdminId)
                           THEN AppSetUser(created, appAdminId,
                                   [id |-> appAdminId, name |-> "Admin",
                                    email |-> AppAdminEmail, password |-> "seed",
                                    balance |-> Num(10000), role |-> "admin"])
                       ELSE created
         IN  Outcome(JsonUsers(seeded), transactions, giftCardSubmissions, adminLogs,
                     Ok("app-signup"))

AppSignup(name, email, t) ==
    /\ Len(AppSignupResult(name, email, t).users) <= MaxUsers
    /\ now' = t
    /\ Becomes(AppSignupResult(name, email, t))
    /\ UNCHANGED uploading

\* requireAdmin of app.js
appRequireAdmin(us, userId) ==
    /\ userId # Undefined
    /\ HasKey(us, userId)
    /\ GetUser(us, userId).role = "admin"

\* POST /admin/add-balance of app.js
AppAddBalanceResult(cookie, userId, amount) ==
    IF ~appRequireAdmin(users, cookie)
        THEN Refused(Redirect("app-add-balance", "/login"))
    ELSE IF ~HasKey(users, userId)
        THEN Refused(Fail("app-add-balance", "User not found"))
    ELSE LET target == GetUser(users, userId)
             newBalance == JsAdd(target.balance, parseFloat(amount))
         IN  Outcome(
                JsonUsers(SetUser(users, userId, [target EXCEPT !.balance = newBalance])),
                Append(transactions,
                    [type |-> "admin_add", from |-> ADMIN, to |-> userId,
                     amount |-> JsonNumber(parseFloat(amount))]),
                giftCardSubmissions, adminLogs,
                Response("app-add-balance", TRUE, "", JsonNumber(newBalance)))

AppAddBalance(cookie, userId, amount) ==
    /\ Len(transactions) < MaxTx
    /\ Becomes(AppAddBalanceResult(cookie, userId, amount))
    /\ UNCHANGED <<uploading, now>>

NextApp ==
    \/ \E email \in SignupEmails, t \in Clock : AppSignup("n1", email, t)
    \/ \E cookie \in Keys(users) \cup {Undefined},
          userId \in Keys(users) \cup {AppUserId(MaxClock + 1)},
          amount \in Amounts :
            AppAddBalance(cookie, userId, amount)

SpecApp == AppInit /\ [][NextApp]_vars

---------------------------------------------------------------------------
(* The record store: loads, saves, crashes inside a write, the autosave
   timer, and damage done to the files from outside *)

\* the users document a handler writes back: the one it read with a user
\* added, or with the users that signed up removed
UsersUpdates(us) == {Append(us, "x"), SelectSeq(us, LAMBDA entry : entry # "x")}

\* what a load found in the main file and what it returned
Loaded(c, found, value) == [collection |-> c, found |-> found, value |-> value]

LoadUsers ==
    /\ files' = getUsers(files).files
    /\ loaded' = Loaded("users", files[USERS_FILE], getUsers(files).value)
    /\ UNCHANGED <<handlerVars, audit>>

LoadList(c) ==
    /\ loaded' = Loaded(c, files[Main(c)], getList(files, c))
    /\ UNCHANGED <<files, handlerVars, audit>>

\* a handler that changes the users: getUsers, then saveUsers
SaveUsers(us) ==
    /\ us \in UsersUpdates(getUsers(files).value)
    /\ Len(us) <= MaxDoc
    /\ files' = saveUsersTo(getUsers(files).files, us)
    /\ loaded' = Loaded("users", files[USERS_FILE], getUsers(files).value)
    /\ UNCHANGED <<handlerVars, audit>>

SaveList(c, entry) ==
    /\ Len(getList(files, c)) < MaxDoc
    /\ files' = saveListTo(files, c, entry)
    /\ loaded' = Loaded(c, files[Main(c)], getList(files, c))
    /\ UNCHANGED <<handlerVars, audit>>

\* the process dies inside the write of users.json and is started again
CrashSavingUsers(us, partial) ==
    /\ us \in UsersUpdates(getUsers(files).value)
    /\ Len(us) <= MaxDoc
    /\ LET crashed == saveUsersCrashed(getUsers(files).files, us, partial)
       IN  /\ files' = getUsers(initializeServer(crashed)).files
           /\ loaded' = Loaded("users", crashed[USERS_FILE],
                               getUsers(initializeServer(crashed)).value)
    /\ UNCHANGED <<handlerVars, audit>>

CrashSavingList(c, entry, partial) ==
    /\ Len(getList(files, c)) < MaxDoc
    /\ LET crashed == saveListCrashed(files, c, entry, partial)
       IN  /\ files' = initializeServer(crashed)
           /\ loaded' = Loaded(c, crashed[Main(c)],
                               getList(initializeServer(crashed), c))
    /\ UNCHANGED <<handlerVars, audit>>

AutoSave ==
    /\ files' = autoSaveData(files)
    /\ UNCHANGED <<loaded, handlerVars, audit>>

\* a main file or an autosave copy is removed, emptied or garbled
Damage(f, content) ==
    /\ files' = [files EXCEPT ![f] = content]
    /\ UNCHANGED <<loaded, handlerVars, audit>>

Damageable == {Main(c) : c \in Collections} \cup {AutoSaveFile(c) : c \in Collections}

NextStore ==
    \/ LoadUsers
    \/ \E c \in Lists : LoadList(c)
    \/ \E us \in UsersUpdates(getUsers(files).value) : SaveUsers(us)
    \/ \E c \in Lists : SaveList(c, "x")
    \/ \E us \in UsersUpdates(getUsers(files).value), partial \in PartialWrites :
            CrashSavingUsers(us, partial)
    \/ \E c \in Lists, partial \in PartialWrites : CrashSavingList(c, "x", partial)
    \/ AutoSave
    \/ \E f \in Damageable, content \in {Missing, Blank, Malformed} : Damage(f, content)

SpecStore == Init /\ [][NextStore]_vars

---------------------------------------------------------------------------
(* The autosave copies next to the handlers that write the files: saves of
   users and of list entries, approvals, rejections and the autosave timer,
   on files that nothing else touches *)

ApproveOnFiles(c) ==
    /\ approveGiftcardOn(files, c) # files
    /\ files' = approveGiftcardOn(files, c)
    /\ loaded' = Loaded(c, files[Main(c)], getList(files, c))
    /\ UNCHANGED <<handlerVars, audit>>

RejectOnFiles(c) ==
    /\ rejectGiftcardOn(files, c) # files
    /\ files' = rejectGiftcardOn(files, c)
    /\ loaded' = Loaded(c, files[Main(c)], getList(files, c))
    /\ UNCHANGED <<handlerVars, audit>>

\* the process is stopped, the main file is lost or emptied, and the
\* process is started again
RestartWithout(f, content) ==
    /\ files' = initializeServer([files EXCEPT ![f] = content])
    /\ loaded' = Loaded("users", content, getUsers(files').value)
    /\ UNCHANGED <<handlerVars, audit>>

NextShadow ==
    \/ \E us \in UsersUpdates(getUsers(files).value) : SaveUsers(us)
    \/ \E c \in Lists : SaveList(c, "x")
    \/ \E c \in Lists : ApproveOnFiles(c)
    \/ \E c \in Lists : RejectOnFiles(c)
    \/ AutoSave
    \/ \E c \in Collections, content \in {Missing, Blank} :
            RestartWithout(Main(c), content)

SpecShadow == Init /\ [][NextShadow]_vars

---------------------------------------------------------------------------
(* The operations that write the admin log, with admin_logs.json failing
   from before the first request *)

AuditModes == {"unreadable", "unwritable"}

\* admin_logs.json becomes unreadable or unwritable, and stays so
AuditTrouble(mode) ==
    /\ audit = "ok"
    /\ audit' = mode
    /\ UNCHANGED <<handlerVars, storeVars>>

\* the requests of this specification all come at the same instant
NextAudit ==
    \/ \E mode \in AuditModes : AuditTrouble(mode)
    \/ audit # "ok" /\ Signup("n1", <<"a">>, now)
    \/ audit # "ok" /\ Len(transactions) < MaxTx - 1
            /\ AddBalance(adminId1, <<"A">>, <<"5", "0">>)
    \/ audit # "ok" /\ Len(transactions) < MaxTx - 1
            /\ DeductBalance(adminId1, <<"A">>, <<"5", "0">>)
    \/ audit # "ok" /\ UpdateUser(adminId1, <<"A">>, "name", "n2")
    \/ audit # "ok"
            /\ CreateUser(adminId1, "n1", <<"A">>, <<"5", "0">>, "undefined", now)
    \/ audit # "ok" /\ DeleteUser(adminId1, <<"A">>)
    \/ audit # "ok" /\ giftCardSubmissions = <<>>
            /\ \E userId \in Keys(users) \ {adminId1, adminId2} : GiftcardUpload(userId)
    \/ audit # "ok" /\ \E req \in uploading : GiftcardPayment(req, TRUE, TRUE, now)
    \/ audit # "ok" /\ \E submissionId \in SubmissionIds :
            ApproveGiftcard(adminId1, submissionId, now)
    \/ audit # "ok" /\ \E submissionId \in SubmissionIds :
            RejectGiftcard(adminId1, submissionId, "", now)

SpecAudit == Init /\ [][NextAudit]_vars

---------------------------------------------------------------------------
(* Crashes inside a credit or a debit.  The handler writes its files one
   after the other; the process can die before any of these writes or
   inside it, or after the last of them and before the admin log is
   written, and is started again some time later. *)

TRANSACTIONS_FILE == Main("transactions")
TRANSACTIONS_AUTOSAVE == AutoSaveFile("transactions")

\* the files that hold the documents us and txs when every write so far went
\* through saveUsers and saveTransaction
FilesOf(us, txs) ==
    [f \in FileNames |->
        IF f \in {USERS_FILE, USERS_AUTOSAVE} THEN Json(us)
        ELSE IF f = TRANSACTIONS_FILE THEN Json(txs)
        ELSE IF f = TRANSACTIONS_AUTOSAVE /\ txs # <<>> THEN Json(txs)
        ELSE Missing]

Write(file, content) == [file |-> file, content |-> content]

\* the writes with saveUsers called before saveTransaction
LedgerWritesUsersFirst(fs, txs, us) ==
    (IF existsSync(fs[USERS_FILE]) /\ ~IsBlank(fs[USERS_FILE])
         THEN <<Write(USERS_BACKUP, fs[USERS_FILE]), Write(USERS_AUTOSAVE, fs[USERS_FILE])>>
     ELSE <<>>)
    \o <<Write(USERS_FILE, Json(us)), Write(USERS_AUTOSAVE, Json(us))>>
    \o <<Write(TRANSACTIONS_FILE, Json(txs)), Write(TRANSACTIONS_AUTOSAVE, Json(txs))>>

\* saveTransaction(transaction); saveUsers(users): the calls of
\* fs.writeFileSync in the order in which they are made
LedgerWrites(fs, txs, us) ==
    <<Write(TRANSACTIONS_FILE, Json(txs)), Write(TRANSACTIONS_AUTOSAVE, Json(txs))>>
    \o (IF existsSync(fs[USERS_FILE]) /\ ~IsBlank(fs[USERS_FILE])
            THEN <<Write(USERS_BACKUP, fs[USERS_FILE]),
                   Write(USERS_AUTOSAVE, fs[USERS_FILE])>>
        ELSE <<>>)
    \o <<Write(USERS_FILE, Json(us)), Write(USERS_AUTOSAVE, Json(us))>>

RECURSIVE Written(_, _, _)
\* the files after the first k writes
Written(fs, writes, k) ==
    IF k = 0 THEN fs
    ELSE [Written(fs, writes, k - 1) EXCEPT ![writes[k].file] = writes[k].content]

\* the process died before the next write touched its file
Untouched == [kind |-> "untouched", doc |-> <<>>]

\* where the process dies: after the first k writes, with the file of the
\* next write untouched, truncated or half-written
Cuts == PartialWrites \cup {Untouched}

Crashed(fs, writes, k, cut) ==
    IF k = Len(writes) \/ cut = Untouched THEN Written(fs, writes, k)
    ELSE [Written(fs, writes, k) EXCEPT ![writes[k + 1].file] = cut]

\* initializeServer on the files the crash left, and the documents that the
\* handlers find afterwards
Restarted(fs, t) ==
    LET repaired == initializeDataDirectory(fs)
    IN  [users |-> initializeDefaultAdmin(getUsers(repaired).value, t),
         transactions |-> getList(repaired, "transactions")]

\* what is left of a credit or debit with outcome o when the process dies
\* after k of its writes and is started again at time t
CrashedLedgerResult(o, k, cut, t) ==
    LET fs == FilesOf(users, transactions)
        back == Restarted(Crashed(fs, LedgerWrites(fs, o.transactions, o.users), k, cut), t)
    IN  Outcome(back.users, back.transactions, giftCardSubmissions, adminLogs,
                Ok("start"))

\* the number of writes of a credit or debit
LedgerWriteCount == Len(LedgerWrites(FilesOf(users, transactions), transactions, users))

CrashInAddBalance(adminId, email, amount, k, cut, t) ==
    /\ AddBalanceResult(adminId, email, amount).res.success
    /\ t > now
    /\ now' = t
    /\ uploading' = {}
    /\ Becomes(CrashedLedgerResult(AddBalanceResult(adminId, email, amount), k, cut, t))

CrashInDeductBalance(adminId, email, amount, k, cut, t) ==
    /\ DeductBalanceResult(adminId, email, amount).res.success
    /\ t > now
    /\ now' = t
    /\ uploading' = {}
    /\ Becomes(CrashedLedgerResult(DeductBalanceResult(adminId, email, amount), k, cut, t))

\* the amount of the credits and debits of this specification
CrashAmounts == {<<"5", "0">>}

\* one credit or debit at most is completed and logged; the others are cut
\* short, at the latest before the admin log is written
NextCrash ==
    \/ \E t \in Clock : Signup("n1", <<"a">>, t)
    \/ \E email \in TargetEmails, amount \in CrashAmounts :
            adminLogs = <<>> /\ AddBalance(adminId1, email, amount)
    \/ \E email \in TargetEmails, amount \in CrashAmounts :
            adminLogs = <<>> /\ DeductBalance(adminId1, email, amount)
    \/ \E email \in TargetEmails, amount \in CrashAmounts, k \in 0..LedgerWriteCount,
          cut \in Cuts, t \in Clock :
            CrashInAddBalance(adminId1, email, amount, k, cut, t)
    \/ \E email \in TargetEmails, amount \in CrashAmounts, k \in 0..LedgerWriteCount,
          cut \in Cuts, t \in Clock :
            CrashInDeductBalance(adminId1, email, amount, k, cut, t)

SpecCrash == Init /\ [][NextCrash]_vars

---------------------------------------------------------------------------
(* Properties of the ledger *)

\* the adminId cookies that requireAdminLogin lets through
Admins == {adminId \in AdminCookies : requireAdminLogin(users, adminId)}

LastTransaction(txs) == txs[Len(txs)]

\* the sequence after is the sequence before with one more entry at its end
OneAppended(before, after) ==
    /\ Len(after) = Len(before) + 1
    /\ SubSeq(after, 1, Len(before)) = before

FinitePositive(x) == x.k = "num" /\ x.v > 0

\* C1: a credit by a logged-in administrator to an existing user with an
\* amount that parses to a number greater than 0 leaves the balance at the
\* old balance plus the amount, returns that value as newBalance, and
\* appends exactly one transaction, of type admin_credit, to the target and
\* with the credited amount.
C1_CreditAddsAmount ==
    \A adminId \in Admins, email \in TargetEmails, amount \in Amounts :
        ( /\ FindByEmail(users, email) # 0
          /\ JsGt(parseFloat(amount), Num(0)) )
        => LET targetUser == users[FindByEmail(users, email)]
               o == AddBalanceResult(adminId, email, amount)
               sum == JsAdd(targetUser.balance, parseFloat(amount))
           IN  /\ o.res.success
               /\ GetUser(o.users, targetUser.id).balance = sum
               /\ o.res.newBalance = sum
               /\ OneAppended(transactions, o.transactions)
               /\ LastTransaction(o.transactions).type = "admin_credit"
               /\ LastTransaction(o.transactions).to = targetUser.id
               /\ LastTransaction(o.transactions).amount = parseFloat(amount)

\* C2: a debit whose amount is greater than the target's balance fails with
\* the insufficient-balance error, appends no transaction and leaves the
\* balance (the whole users document) as it was.
C2_DebitInsufficient ==
    \A adminId \in Admins, email \in TargetEmails, amount \in Amounts :
        ( /\ FindByEmail(users, email) # 0
          /\ JsGt(parseFloat(amount), users[FindByEmail(users, email)].balance) )
        => LET o == DeductBalanceResult(adminId, email, amount)
           IN  /\ ~o.res.success
               /\ o.res.error = "Insufficient balance"
               /\ o.transactions = transactions
               /\ o.users = users

\* a debit of more than the balance was refused after an earlier debit went through
C2_Witness ==
    /\ res.op = "deduct-balance"
    /\ res.error = "Insufficient balance"
    /\ Len(transactions) > 0
    /\ \E i \in DOMAIN users : users[i].balance = Num(0)

\* C3: a debit of an existing user with a positive amount not greater than
\* the balance leaves the balance at the old balance minus the amount and
\* appends exactly one transaction, of type admin_debit, from the target and
\* with the debited amount.
C3_DebitSubtractsAmount ==
    \A adminId \in Admins, email \in TargetEmails, amount \in Amounts :
        ( /\ FindByEmail(users, email) # 0
          /\ JsGt(parseFloat(amount), Num(0))
          /\ JsLe(parseFloat(amount), users[FindByEmail(users, email)].balance) )
        => LET targetUser == users[FindByEmail(users, email)]
               o == DeductBalanceResult(adminId, email, amount)
           IN  /\ o.res.success
               /\ targetUser.balance.k = "num"
               /\ GetUser(o.users, targetUser.id).balance
                      = Num(targetUser.balance.v - parseFloat(amount).v)
               /\ OneAppended(transactions, o.transactions)
               /\ LastTransaction(o.transactions).type = "admin_debit"
               /\ LastTransaction(o.transactions).from = targetUser.id
               /\ LastTransaction(o.transactions).amount = parseFloat(amount)

\* a debit of 50 went through on a credited balance
C3_Witness ==
    /\ res.op = "deduct-balance"
    /\ res.success
    /\ LastTransaction(transactions).type = "admin_debit"
    /\ LastTransaction(transactions).amount = Num(50)
    /\ \E i \in DOMAIN transactions : transactions[i].type = "admin_credit"

\* C4: a credit fails when no user has the email or when the amount does not
\* parse to a finite positive number, and then the users document, the
\* transaction log and the admin log are unchanged.
C4_CreditRejectsBadInput ==
    \A adminId \in Admins, email \in TargetEmails, amount \in Amounts :
        ( /\ \/ FindByEmail(users, email) = 0
             \/ ~FinitePositive(parseFloat(amount)) )
        => LET o == AddBalanceResult(adminId, email, amount)
           IN  /\ ~o.res.success
               /\ o.users = users
               /\ o.transactions = transactions
               /\ o.adminLogs = adminLogs

\* C5: a debit whose amount is zero, negative or not a number fails and
\* leaves the target's balance and the transaction log unchanged.
C5_DebitValidatesAmount ==
    \A adminId \in Admins, email \in TargetEmails, amount \in Amounts :
        ( /\ FindByEmail(users, email) # 0
          /\ \/ parseFloat(amount).k = "NaN"
             \/ parseFloat(amount).k = "num" /\ parseFloat(amount).v <= 0 )
        => LET o == DeductBalanceResult(adminId, email, amount)
           IN  /\ ~o.res.success
               /\ o.users = users
               /\ o.transactions = transactions

---------------------------------------------------------------------------
(* Properties of the user directory *)

\* some record has this email, ignoring letter case
EmailTaken(email) ==
    \E i \in DOMAIN users : toLowerCase(users[i].email) = toLowerCase(email)

DuplicateRefused(o) ==
    /\ ~o.res.success
    /\ o.res.error = "Email already exists"
    /\ o.users = users

\* C6: creating a user, by the signup of either server or by create-user,
\* with an email that equals the email of an existing user ignoring letter
\* case fails with the duplicate-email error and leaves the users document
\* unchanged.
C6_DuplicateEmailRejected ==
    \A email \in SignupEmails, t \in Clock :
        EmailTaken(email)
        => /\ DuplicateRefused(SignupResult("n1", email, t))
           /\ DuplicateRefused(AppSignupResult("n1", email, t))
           /\ \A adminId \in Admins, role \in CreateRoles :
                DuplicateRefused(
                    CreateUserResult(adminId, "n1", email, <<"5", "0">>, role, t))

\* C7: no two user records have emails that are equal ignoring letter case.
C7_EmailsUnique ==
    \A i, j \in DOMAIN users :
        i # j => toLowerCase(users[i].email) # toLowerCase(users[j].email)

\* the fields of a user record
UserFields ==
    {"id", "name", "email", "password", "balance", "role", "created", "status",
     "adminLevel", "createdBy", "activated"}

\* the update went through: record i holds the value in the field and its
\* other fields, and the other records, are as before
FieldWritten(o, i, field, value) ==
    /\ o.res.success
    /\ Len(o.users) = Len(users)
    /\ o.users[i][field] = value
    /\ \A f \in UserFields \ {field} : o.users[i][f] = users[i][f]
    /\ \A k \in DOMAIN users : k # i => o.users[k] = users[k]

RestrictedRefused(o) ==
    /\ ~o.res.success
    /\ o.res.error = "Cannot update field"
    /\ o.users = users

\* C8 as stated: update-user on id, created or createdBy always fails with
\* the restricted-field error and changes no record; on another field of an
\* existing user it succeeds and writes the value, other fields unchanged.
C8_AsStated ==
    \A adminId \in Admins, email \in DirectoryEmails :
        LET i == FindByEmail(users, email)
        IN  \A field \in Fields : \A value \in FieldValues(field) :
                LET o == UpdateUserResult(adminId, email, field, value)
                IN  IF field \in {"id", "created", "createdBy"}
                        THEN RestrictedRefused(o)
                    ELSE i # 0 => FieldWritten(o, i, field, value)

\* C8: update-user on id, created or createdBy of an existing user fails
\* with the restricted-field error; with an email that no user has it fails
\* with the not-found error whatever the field; either way no record
\* changes.  On another field of an existing user it succeeds and writes
\* the value, other fields unchanged.
C8_RestrictedFields ==
    \A adminId \in Admins, email \in DirectoryEmails :
        LET i == FindByEmail(users, email)
        IN  \A field \in Fields : \A value \in FieldValues(field) :
                LET o == UpdateUserResult(adminId, email, field, value)
                IN  IF i = 0
                        THEN /\ ~o.res.success
                             /\ o.res.error = "User not found"
                             /\ o.users = users
                    ELSE IF field \in {"id", "created", "createdBy"}
                        THEN RestrictedRefused(o)
                    ELSE FieldWritten(o, i, field, value)

\* an update of a restricted field was refused after an update of the name
\* went through
C8_Witness ==
    /\ res.op = "update-user"
    /\ res.error = "Cannot update field"
    /\ \E i \in DOMAIN adminLogs : adminLogs[i].action = "update_user"
    /\ \E i \in DOMAIN users : users[i].name = "n2"

---------------------------------------------------------------------------
(* Properties of the submission workflow *)

\* a gift-card transaction of the user that waits for approval
AwaitsApproval(t, userId) ==
    t.type = "activation_fee" /\ t.from = userId /\ t.paymentMethod = "giftcard"
        /\ t.status = "pending"

\* C9: approving a submission whose user still exists sets the submission's
\* status to approved and approvedBy to the acting administrator, sets
\* activated on the submission's user, and turns exactly one pending
\* gift-card transaction of that user into a completed one when there is
\* one (no transaction changes otherwise); nothing else in the three
\* documents changes.
C9_ApproveActivates ==
    \A adminId \in Admins, submissionId \in SubmissionIds, t \in Clock :
        ( /\ FindSubmission(giftCardSubmissions, submissionId) # 0
          /\ HasKey(users,
                 giftCardSubmissions[FindSubmission(giftCardSubmissions,
                                                    submissionId)].userId) )
        => LET i == FindSubmission(giftCardSubmissions, submissionId)
               userId == giftCardSubmissions[i].userId
               o == ApproveGiftcardResult(adminId, submissionId, t)
               waiting == {j \in DOMAIN transactions :
                              AwaitsApproval(transactions[j], userId)}
               changed == {j \in DOMAIN transactions :
                              o.transactions[j] # transactions[j]}
           IN  /\ o.res.success
               /\ Len(o.giftCardSubmissions) = Len(giftCardSubmissions)
               /\ o.giftCardSubmissions[i].status = "approved"
               /\ o.giftCardSubmissions[i].approvedBy = adminId
               /\ \A k \in DOMAIN giftCardSubmissions :
                      k # i => o.giftCardSubmissions[k] = giftCardSubmissions[k]
               /\ Keys(o.users) = Keys(users)
               /\ GetUser(o.users, userId).activated = TRUE
               /\ \A k \in DOMAIN users :
                      users[k].id # userId => o.users[k] = users[k]
               /\ Len(o.transactions) = Len(transactions)
               /\ waiting = {} => changed = {}
               /\ waiting # {}
                    => /\ Cardinality(changed) = 1
                       /\ changed \subseteq waiting
                       /\ \A j \in changed :
                              /\ o.transactions[j].status = "completed"
                              /\ o.transactions[j].amount = transactions[j].amount
                              /\ o.transactions[j].from = userId

\* an approval activated a user who had two gift-card payments waiting: one
\* is completed, the other still pending
C9_Witness ==
    /\ res.op = "approve-giftcard"
    /\ res.success
    /\ \E i \in DOMAIN giftCardSubmissions :
          /\ giftCardSubmissions[i].status = "approved"
          /\ giftCardSubmissions[i].approvedBy = adminId1
          /\ HasKey(users, giftCardSubmissions[i].userId)
          /\ GetUser(users, giftCardSubmissions[i].userId).activated
          /\ \E j, k \in DOMAIN transactions :
                /\ transactions[j].from = giftCardSubmissions[i].userId
                /\ transactions[j].paymentMethod = "giftcard"
                /\ transactions[j].status = "completed"
                /\ AwaitsApproval(transactions[k], giftCardSubmissions[i].userId)

\* the fields of a submission that a rejection leaves alone
KeptOnReject ==
    {"userId", "userName", "userEmail", "activationFee", "timestamp",
     "approvedBy", "approvedAt"}

\* C10: rejecting a submission sets status = rejected, rejectedBy,
\* rejectedAt and rejectionReason on that submission and appends one
\* admin-log entry; the submission's other fields, every other submission,
\* the users document and the transaction log are unchanged.
C10_RejectFrame ==
    \A adminId \in Admins, submissionId \in SubmissionIds,
       reason \in Reasons, t \in Clock :
        FindSubmission(giftCardSubmissions, submissionId) # 0
        => LET i == FindSubmission(giftCardSubmissions, submissionId)
               o == RejectGiftcardResult(adminId, submissionId, reason, t)
           IN  /\ o.res.success
               /\ o.users = users
               /\ o.transactions = transactions
               /\ Len(o.giftCardSubmissions) = Len(giftCardSubmissions)
               /\ \A k \in DOMAIN giftCardSubmissions :
                      k # i => o.giftCardSubmissions[k] = giftCardSubmissions[k]
               /\ \A f \in KeptOnReject :
                      o.giftCardSubmissions[i][f] = giftCardSubmissions[i][f]
               /\ o.giftCardSubmissions[i].status = "rejected"
               /\ o.giftCardSubmissions[i].rejectedBy = adminId
               /\ o.giftCardSubmissions[i].rejectedAt = ISOString(t)
               /\ o.giftCardSubmissions[i].rejectionReason
                      \in {reason, "No reason provided"}
               /\ OneAppended(adminLogs, o.adminLogs)
               /\ o.adminLogs[Len(o.adminLogs)].action = "reject_giftcard"

\* a rejection went through while another submission was waiting and the
\* payer stayed inactive with the payment still pending
C10_Witness ==
    /\ res.op = "reject-giftcard"
    /\ res.success
    /\ \E i, k \in DOMAIN giftCardSubmissions :
          /\ giftCardSubmissions[i].status = "rejected"
          /\ giftCardSubmissions[i].rejectedBy = adminId1
          /\ giftCardSubmissions[k].status = "pending"
          /\ HasKey(users, giftCardSubmissions[i].userId)
          /\ ~GetUser(users, giftCardSubmissions[i].userId).activated
    /\ \E j \in DOMAIN transactions : transactions[j].status = "pending"
    /\ adminLogs[Len(adminLogs)].action = "reject_giftcard"

---------------------------------------------------------------------------
(* Properties of the life cycle of a submission *)

\* C11: the status of a submission is terminal once resolved: a reject
\* request on a submission that is approved or rejected leaves its status as
\* it is, and an approve request on it does not succeed and leaves the
\* submission as it is (no approved submission becomes rejected, no rejected
\* one becomes approved, no resolved one is approved again).
C11_StatusTerminal ==
    \A adminId \in Admins, submissionId \in SubmissionIds,
       reason \in Reasons, t \in Clock :
        LET i == FindSubmission(giftCardSubmissions, submissionId)
        IN  (i # 0 /\ giftCardSubmissions[i].status \in {"approved", "rejected"})
            => LET approved == ApproveGiftcardResult(adminId, submissionId, t)
                   rejected == RejectGiftcardResult(adminId, submissionId, reason, t)
               IN  /\ rejected.giftCardSubmissions[i].status
                          = giftCardSubmissions[i].status
                   /\ approved.giftCardSubmissions[i] = giftCardSubmissions[i]
                   /\ ~approved.res.success

\* the admin log shows the first steps of the scenario for this user: a
\* credit of 500 on a balance of 0, then a gift-card payment
ScenarioPaid(userId) ==
    /\ Len(adminLogs) >= 2
    /\ adminLogs[1].action = "add_balance"
    /\ adminLogs[1].details.targetUser = userId
    /\ adminLogs[1].details.oldBalance = Num(0)
    /\ adminLogs[1].details.amount = Num(500)
    /\ adminLogs[2].action = "activation_payment"
    /\ adminLogs[2].details.userId = userId
    /\ adminLogs[2].details.method = "giftcard"

\* ... and then the approval of that user's submission
ScenarioApproved(userId) ==
    /\ ScenarioPaid(userId)
    /\ Len(adminLogs) = 3
    /\ adminLogs[3].action = "approve_giftcard"
    /\ adminLogs[3].details.userId = userId

\* the activation_fee transactions paid by the user
FeesOf(userId) ==
    {j \in DOMAIN transactions :
        transactions[j].type = "activation_fee" /\ transactions[j].from = userId}

\* C12: a signed-up user (balance 0, not activated) is credited 500 and then
\* submits a gift-card payment: the submission and the activation_fee
\* transaction both carry the amount 10, pending, and the user is not yet
\* activated; once an administrator has approved the submission the user is
\* activated, that transaction is completed and the balance is still 500.
C12_Scenario ==
    \A userId \in Keys(users) :
        GetUser(users, userId).role = "user"
        => /\ (ScenarioPaid(userId) /\ Len(adminLogs) = 2)
                => /\ Len(giftCardSubmissions) = 1
                   /\ giftCardSubmissions[1].userId = userId
                   /\ giftCardSubmissions[1].activationFee = Num(10)
                   /\ giftCardSubmissions[1].status = "pending"
                   /\ Cardinality(FeesOf(userId)) = 1
                   /\ \A j \in FeesOf(userId) :
                          /\ transactions[j].amount = Num(10)
                          /\ transactions[j].status = "pending"
                   /\ ~GetUser(users, userId).activated
                   /\ GetUser(users, userId).balance = Num(500)
           /\ ScenarioApproved(userId)
                => /\ Len(giftCardSubmissions) = 1
                   /\ giftCardSubmissions[1].activationFee = Num(10)
                   /\ giftCardSubmissions[1].status = "approved"
                   /\ Cardinality(FeesOf(userId)) = 1
                   /\ \A j \in FeesOf(userId) :
                          /\ transactions[j].amount = Num(10)
                          /\ transactions[j].status = "completed"
                   /\ GetUser(users, userId).activated = TRUE
                   /\ GetUser(users, userId).balance = Num(500)

\* the scenario has run to its end
C12_Witness ==
    /\ res.op = "approve-giftcard"
    /\ res.success
    /\ \E userId \in Keys(users) :
          /\ GetUser(users, userId).role = "user"
          /\ ScenarioApproved(userId)
          /\ GetUser(users, userId).activated

---------------------------------------------------------------------------
(* Properties of delete-user *)

---------------------------------------------------------------------------
(* Properties of the activation payments *)

\* the users that requireUserLogin lets through
Payers == {userId \in UserCookies : requireUserLogin(users, userId)}

TransactionIds == {"tx"}

\* C14: a USDT payment with a non-empty transaction id records an
\* activation_fee transaction with status completed and sets the payer's
\* activated flag at once; a gift-card payment (both images present) records
\* the transaction and the submission with status pending and leaves the
\* activated flag of every user as it is.
C14_UsdtNowGiftcardLater ==
    /\ \A userId \in Payers, transactionId \in TransactionIds :
          LET o == UsdtPaymentResult(userId, transactionId)
          IN  /\ o.res.success
              /\ OneAppended(transactions, o.transactions)
              /\ LastTransaction(o.transactions).type = "activation_fee"
              /\ LastTransaction(o.transactions).from = userId
              /\ LastTransaction(o.transactions).paymentMethod = "usdt"
              /\ LastTransaction(o.transactions).status = "completed"
              /\ GetUser(o.users, userId).activated = TRUE
    /\ \A req \in uploading, t \in Clock :
          LET o == GiftcardPaymentResult(req, TRUE, TRUE, t)
          IN  /\ o.res.success
              /\ OneAppended(transactions, o.transactions)
              /\ LastTransaction(o.transactions).type = "activation_fee"
              /\ LastTransaction(o.transactions).from = req.userId
              /\ LastTransaction(o.transactions).paymentMethod = "giftcard"
              /\ LastTransaction(o.transactions).status = "pending"
              /\ OneAppended(giftCardSubmissions, o.giftCardSubmissions)
              /\ o.giftCardSubmissions[Len(o.giftCardSubmissions)].status = "pending"
              /\ o.giftCardSubmissions[Len(o.giftCardSubmissions)].userId = req.userId
              /\ Keys(o.users) = Keys(users)
              /\ \A k \in Keys(users) :
                     GetUser(o.users, k).activated = GetUser(users, k).activated

\* one user paid by USDT and is activated, another paid by gift card and is
\* still waiting, not activated
C14_Witness ==
    \E j, k \in DOMAIN transactions :
        /\ transactions[j].paymentMethod = "usdt"
        /\ transactions[j].status = "completed"
        /\ HasKey(users, transactions[j].from)
        /\ GetUser(users, transactions[j].from).activated
        /\ AwaitsApproval(transactions[k], transactions[k].from)
        /\ HasKey(users, transactions[k].from)
        /\ ~GetUser(users, transactions[k].from).activated
        /\ \E i \in DOMAIN giftCardSubmissions :
              /\ giftCardSubmissions[i].userId = transactions[k].from
              /\ giftCardSubmissions[i].status = "pending"

\* the balances of all users, by id
Balances(us) == [k \in Keys(us) |-> GetUser(us, k).balance]

\* C15: an activation payment that is accepted, by gift card or by USDT,
\* appends exactly one transaction, of type activation_fee and from the
\* paying user, and leaves the balance of every user as it was.
C15_PaymentFrame ==
    /\ \A userId \in Payers, transactionId \in TransactionIds :
          LET o == UsdtPaymentResult(userId, transactionId)
          IN  /\ OneAppended(transactions, o.transactions)
              /\ LastTransaction(o.transactions).type = "activation_fee"
              /\ LastTransaction(o.transactions).from = userId
              /\ Balances(o.users) = Balances(users)
    /\ \A req \in uploading, t \in Clock :
          LET o == GiftcardPaymentResult(req, TRUE, TRUE, t)
          IN  /\ OneAppended(transactions, o.transactions)
              /\ LastTransaction(o.transactions).type = "activation_fee"
              /\ LastTransaction(o.transactions).from = req.userId
              /\ Balances(o.users) = Balances(users)

\* both kinds of payment were accepted, one of them with a fee above 0,
\* and the payers still have the balances they had
C15_Witness ==
    /\ res.op \in {"giftcard", "usdt"}
    /\ res.success
    /\ Len(transactions) = 2
    /\ \E j, k \in DOMAIN transactions :
          /\ transactions[j].type = "activation_fee"
          /\ transactions[j].paymentMethod = "usdt"
          /\ transactions[k].type = "activation_fee"
          /\ transactions[k].paymentMethod = "giftcard"
          /\ transactions[k].amount = Num(20000)
          /\ HasKey(users, transactions[k].from)
          /\ GetUser(users, transactions[k].from).balance = Num(1000000)
          /\ HasKey(users, transactions[j].from)
          /\ GetUser(users, transactions[j].from).balance = Num(0)

---------------------------------------------------------------------------
(* Properties of the record store *)

\* the main file of the collection is missing, blank or malformed
Unusable(fs, c) == ~Parses(fs[Main(c)])

\* C16 as stated: when the main file of a collection is missing, blank or
\* malformed, the load returns the default document, for users.json as for
\* the other collections.
C16_AsStated ==
    /\ Unusable(files, "users") => getUsers(files).value = DefaultDocument
    /\ \A c \in Lists : Unusable(files, c) => getList(files, c) = DefaultDocument

\* C16, amended: when the main file is missing, blank or malformed, the load
\* of every collection but users returns the default document, and the load
\* of users returns the document of the autosave copy when that copy exists,
\* is not blank and parses, and the default document otherwise.
C16_LoadFailsSoft ==
    /\ Unusable(files, "users")
          => getUsers(files).value
                = IF Parses(files[USERS_AUTOSAVE]) THEN files[USERS_AUTOSAVE].doc
                  ELSE DefaultDocument
    /\ \A c \in Lists : Unusable(files, c) => getList(files, c) = DefaultDocument

\* a load of users found the main file garbled and returned the users of the
\* autosave copy, which it wrote over the main file
C16_Witness ==
    /\ loaded.collection = "users"
    /\ loaded.found = Malformed
    /\ loaded.value # DefaultDocument
    /\ Parses(files[USERS_FILE])
    /\ files[USERS_FILE] = files[USERS_AUTOSAVE]
    /\ loaded.value = files[USERS_AUTOSAVE].doc

\* C17: a save writes the whole document over the main file, and after a
\* save onto a main file that exists and is not blank the backup file of the
\* collection holds what the main file held just before; for users.json as
\* for the other collections.
C17_BackupBeforeSave ==
    /\ \A us \in UsersUpdates(getUsers(files).value) :
          /\ saveUsersTo(files, us)[USERS_FILE] = Json(us)
          /\ (existsSync(files[USERS_FILE]) /\ ~IsBlank(files[USERS_FILE]))
                => saveUsersTo(files, us)[USERS_BACKUP] = files[USERS_FILE]
    /\ \A c \in Lists :
          /\ saveListTo(files, c, "x")[Main(c)] = Json(Append(getList(files, c), "x"))
          /\ (existsSync(files[Main(c)]) /\ ~IsBlank(files[Main(c)]))
                => saveListTo(files, c, "x")[Backup(c)] = files[Main(c)]

\* C17 for users.json alone
C17_UsersBackup ==
    \A us \in UsersUpdates(getUsers(files).value) :
        /\ saveUsersTo(files, us)[USERS_FILE] = Json(us)
        /\ (existsSync(files[USERS_FILE]) /\ ~IsBlank(files[USERS_FILE]))
              => saveUsersTo(files, us)[USERS_BACKUP] = files[USERS_FILE]

\* C18: when the process dies inside the write of a main file, the next
\* load, after the restart, returns the value that a load returned before
\* the write; for users.json (with its administrators seeded) as for the
\* other collections.
C18_CrashKeepsOldValue ==
    /\ \A us \in UsersUpdates(getUsers(files).value), partial \in PartialWrites :
          LET before == getUsers(files)
              crashed == saveUsersCrashed(before.files, us, partial)
          IN  (\E i \in DOMAIN before.value : before.value[i] = "admin")
              => getUsers(initializeServer(crashed)).value = before.value
    /\ \A c \in Lists, partial \in PartialWrites :
          getList(initializeServer(saveListCrashed(files, c, "x", partial)), c)
              = getList(files, c)

\* C18 when the crash leaves the main file truncated to nothing, with the
\* autosave copy of the list in step with its main file
C18_TruncatedOnly ==
    /\ \A us \in UsersUpdates(getUsers(files).value) :
          LET before == getUsers(files)
              crashed == saveUsersCrashed(before.files, us, Blank)
          IN  (\E i \in DOMAIN before.value : before.value[i] = "admin")
              => getUsers(initializeServer(crashed)).value = before.value
    /\ \A c \in Lists :
          (Parses(files[Main(c)]) /\ files[AutoSaveFile(c)] = files[Main(c)])
          => getList(initializeServer(saveListCrashed(files, c, "x", Blank)), c)
                = getList(files, c)

---------------------------------------------------------------------------
(* Properties of the admin log *)

\* C19: while admin_logs.json cannot be read or cannot be written, each of
\* credit, debit, update-user, create-user, delete-user, approve and reject
\* still answers success on a request it accepts and still persists its
\* change: the new balance with its transaction, the field written, the
\* record created or removed, the status of the submission.
C19_AuditNeverBlocks ==
    audit # "ok"
    => \A adminId \in Admins :
        /\ \A email \in TargetEmails :
              FindByEmail(users, email) # 0
              => LET i == FindByEmail(users, email)
                     credit == AddBalanceResult(adminId, email, <<"5", "0">>)
                     debit == DeductBalanceResult(adminId, email, <<"5", "0">>)
                     update == UpdateUserResult(adminId, email, "name", "n2")
                     delete == DeleteUserResult(adminId, email)
                 IN  /\ FinitePositive(users[i].balance) \/ users[i].balance = Num(0)
                        => /\ credit.res.success
                           /\ credit.users[i].balance = JsAdd(users[i].balance, Num(50))
                           /\ OneAppended(transactions, credit.transactions)
                     /\ (FinitePositive(users[i].balance) /\ users[i].balance.v >= 50)
                        => /\ debit.res.success
                           /\ debit.users[i].balance = JsSub(users[i].balance, Num(50))
                           /\ OneAppended(transactions, debit.transactions)
                     /\ update.res.success
                     /\ update.users[i].name = "n2"
                     /\ (users[i].role # "admin" \/ users[i].id = adminId)
                        => /\ delete.res.success
                           /\ ~HasKey(delete.users, users[i].id)
        /\ \A email \in SignupEmails, t \in Clock :
              ~EmailTaken(email)
              => LET create == CreateUserResult(adminId, "n1", email, <<"5", "0">>,
                                                "undefined", t)
                 IN  /\ create.res.success
                     /\ Len(create.users) = Len(users) + 1
                     /\ EmailExists(create.users, email)
        /\ \A submissionId \in SubmissionIds, t \in Clock :
              FindSubmission(giftCardSubmissions, submissionId) # 0
              => LET i == FindSubmission(giftCardSubmissions, submissionId)
                     approve == ApproveGiftcardResult(adminId, submissionId, t)
                     reject == RejectGiftcardResult(adminId, submissionId, "", t)
                 IN  /\ approve.res.success
                     /\ approve.giftCardSubmissions[i].status = "approved"
                     /\ reject.res.success
                     /\ reject.giftCardSubmissions[i].status = "rejected"

\* a credit and an approval went through while the admin log could not be
\* written: the balance, the transactions and the submission changed, the
\* log is still empty
C19_Witness ==
    /\ audit = "unwritable"
    /\ res.op = "approve-giftcard"
    /\ res.success
    /\ adminLogs = <<>>
    /\ \E i \in DOMAIN users : users[i].role = "user" /\ users[i].balance = Num(50)
    /\ \E j \in DOMAIN transactions : transactions[j].type = "admin_credit"
    /\ \E k \in DOMAIN giftCardSubmissions : giftCardSubmissions[k].status = "approved"

---------------------------------------------------------------------------
(* Properties of concurrent requests.  A handler reads, changes and writes
   its documents within one synchronous call, so requests that arrive
   together are handled one after the other in some order: each is one
   action of the model. *)

SeededBalance(userId) ==
    IF userId \in {adminId1, adminId2} THEN 1000000 ELSE 0

\* the credits recorded to the user, and the debits recorded from the user
CreditsTo(userId) ==
    {j \in DOMAIN transactions :
        transactions[j].type = "admin_credit" /\ transactions[j].to = userId}
DebitsFrom(userId) ==
    {j \in DOMAIN transactions :
        transactions[j].type = "admin_debit" /\ transactions[j].from = userId}

RECURSIVE NetCredit(_, _)
\* the sum of the recorded credits to the user less the recorded debits
NetCredit(txs, userId) ==
    IF txs = <<>> THEN 0
    ELSE LET t == txs[Len(txs)]
             rest == NetCredit(SubSeq(txs, 1, Len(txs) - 1), userId)
         IN  IF t.type = "admin_credit" /\ t.to = userId THEN rest + t.amount.v
             ELSE IF t.type = "admin_debit" /\ t.from = userId THEN rest - t.amount.v
             ELSE rest

---------------------------------------------------------------------------
(* Properties of whole runs of the ledger *)

\* the users that were created by POST /signup
SignedUp == {i \in DOMAIN users : users[i].id[1] = "user_"}

\* C21: after any sequence of sign-ups, credits and debits, accepted or
\* refused, the balance of every user created by sign-up is the sum of the
\* amounts of the admin_credit transactions to that user less the sum of
\* the amounts of the admin_debit transactions from that user.
C21_BalanceReconciles ==
    \A i \in SignedUp :
        users[i].balance = Num(NetCredit(transactions, users[i].id))

---------------------------------------------------------------------------
(* Properties of the pairing of submissions and transactions *)

\* the transactions recorded by gift-card payments; the handler records one
\* submission and one transaction per payment, so the i-th of them belongs
\* to the i-th submission
GiftcardIndexes ==
    {j \in DOMAIN transactions : transactions[j].paymentMethod = "giftcard"}

RecordedWith(i) ==
    {j \in GiftcardIndexes : Cardinality({k \in GiftcardIndexes : k <= j}) = i}

\* the transactions an outcome has changed in place
Flipped(o) ==
    {j \in DOMAIN transactions : o.transactions[j] # transactions[j]}

\* C22: when a gift-card submission is approved, the transaction that is
\* flipped to completed is the one recorded by the same gift-card payment
\* as the approved submission, whatever payments, rejections and approvals
\* the user has behind them.
C22_ApproveFlipsOwnTransaction ==
    \A adminId \in Admins, submissionId \in SubmissionIds, t \in Clock :
        LET o == ApproveGiftcardResult(adminId, submissionId, t)
            i == FindSubmission(giftCardSubmissions, submissionId)
        IN  o.res.success => Flipped(o) \subseteq RecordedWith(i)

---------------------------------------------------------------------------
(* Properties of the administrators' accounts *)

\* C23: no sequence of admin operations issued by one administrator removes
\* the record of another administrator.  Checked for the second seeded
\* administrator, who issues no request: as long as every operation in the
\* admin log was issued by the first administrator, the record of the
\* second is in the users document.
C23_AdminsOutliveOthers ==
    (\A k \in DOMAIN adminLogs : adminLogs[k].adminId = adminId1)
        => HasKey(users, adminId2)


\* the adminId cookies a client can hold: the key of a record, of a record
\* that was deleted, or none
HeldCookies ==
    Keys(users) \cup {Undefined, adminId1, adminId2}
        \cup {UserId(t) : t \in 0..MaxClock}
        \cup {AdminCreatedId(t) : t \in 0..MaxClock}

\* the cookie names a record that exists with role admin
IsAdminNow(adminId) ==
    \E i \in DOMAIN users : users[i].id = adminId /\ users[i].role = "admin"

\* what the admin requests carrying the cookie would leave behind
AdminOutcomes(adminId) ==
    {AddBalanceResult(adminId, email, <<"5", "0">>) : email \in DirectoryEmails}
        \cup {DeductBalanceResult(adminId, email, <<"5", "0">>) :
                email \in DirectoryEmails}
        \cup {UpdateUserResult(adminId, email, "name", "n2") : email \in DirectoryEmails}
        \cup {UpdateUserResult(adminId, email, "role", "user") :
                email \in DirectoryEmails}
        \cup {CreateUserResult(adminId, "n1", <<"b">>, <<"5", "0">>, role, now) :
                role \in CreateRoles}
        \cup {DeleteUserResult(adminId, email) : email \in DirectoryEmails}
        \cup {ApproveGiftcardResult(adminId, submissionId, now) :
                submissionId \in SubmissionIds}
        \cup {RejectGiftcardResult(adminId, submissionId, "", now) :
                submissionId \in SubmissionIds}

\* every admin request carrying the cookie is sent to the login page and
\* changes no collection
Unserved(adminId) ==
    \A o \in AdminOutcomes(adminId) :
        /\ o.res.error = "/admin-login"
        /\ o.users = users
        /\ o.transactions = transactions
        /\ o.giftCardSubmissions = giftCardSubmissions

---------------------------------------------------------------------------
(* Properties of payments made while other requests are served *)

\* C25: the activation fee that a gift-card payment records, in the
\* submission and in its transaction, is 2% of the balance the paying user
\* has in users.json at the moment the submission is recorded, also when a
\* credit or a debit for that user was served between the session check of
\* the request and the end of its upload.
C25_FeeOfStoredBalance ==
    \A req \in uploading, t \in Clock :
        LET o == GiftcardPaymentResult(req, TRUE, TRUE, t)
            fee == JsonNumber(TimesFeeRate(GetUser(users, req.userId).balance))
        IN  (o.res.success /\ HasKey(users, req.userId))
            => /\ LastTransaction(o.transactions).amount = fee
               /\ o.giftCardSubmissions[Len(o.giftCardSubmissions)].activationFee = fee

---------------------------------------------------------------------------
(* Properties of crashes inside a credit or a debit *)

\* the credits and debits that a logged-in administrator can have accepted
LedgerOutcomes ==
    {[email |-> email, o |-> AddBalanceResult(adminId, email, amount)] :
        adminId \in Admins, email \in TargetEmails, amount \in CrashAmounts}
    \cup {[email |-> email, o |-> DeductBalanceResult(adminId, email, amount)] :
            adminId \in Admins, email \in TargetEmails, amount \in CrashAmounts}

\* C26: a credit or debit writes its transaction and its balance change in
\* two separate writes, and wherever the process dies during the operation,
\* the files never show the balance of the target changed without the
\* transaction of the operation in the log: the log is then the old log
\* with that transaction appended.  (A transaction logged with the balance
\* unchanged is possible.)
C26_TransactionFirst ==
    \A r \in LedgerOutcomes :
        r.o.res.success =>
            \A k \in 0..LedgerWriteCount, cut \in Cuts :
                LET c == CrashedLedgerResult(r.o, k, cut, now)
                    targetId == users[FindByEmail(users, r.email)].id
                IN  ( /\ HasKey(c.users, targetId)
                      /\ GetUser(c.users, targetId).balance
                            # GetUser(users, targetId).balance )
                    => /\ c.transactions = r.o.transactions
                       /\ OneAppended(transactions, c.transactions)
                       /\ LastTransaction(c.transactions).type
                            \in {"admin_credit", "admin_debit"}
                       /\ targetId \in {LastTransaction(c.transactions).to,
                                        LastTransaction(c.transactions).from}

\* the server has come back from a crash inside a credit to the user who
\* signed up: the credit of 50 is in the log and the balance is still 0
C26_Witness ==
    /\ res.op = "start"
    /\ \E i \in SignedUp :
          /\ users[i].balance = Num(0)
          /\ \E j \in CreditsTo(users[i].id) : transactions[j].amount = Num(50)

---------------------------------------------------------------------------
(* Properties of the transaction log *)

\* the transaction differs from the one before in its status and note at most
SameButStatusAndNote(before, after) ==
    after = [before EXCEPT !.status = after.status, !.note = after.note]

\* the outcome keeps every transaction recorded so far at its place, and
\* changes at most the status and note of one pending gift-card transaction,
\* and that only in an approval
AppendOnly(o) ==
    /\ Len(o.transactions) >= Len(transactions)
    /\ \A j \in DOMAIN transactions :
          \/ o.transactions[j] = transactions[j]
          \/ /\ o.res.op = "approve-giftcard"
             /\ transactions[j].paymentMethod = "giftcard"
             /\ transactions[j].status = "pending"
             /\ SameButStatusAndNote(transactions[j], o.transactions[j])
    /\ Cardinality(Flipped(o)) <= 1

\* C27: the transaction log is append-only: every operation leaves the
\* transactions recorded so far in the log, in their order and with their
\* type, from, to and amount; the only change in place is that of the status
\* and note of one pending gift-card transaction by an approval.
C27_AppendOnly ==
    /\ \A email \in SignupEmails : AppendOnly(SignupResult("n1", email, now))
    /\ \A req \in uploading, backImage \in BOOLEAN :
          AppendOnly(GiftcardPaymentResult(req, TRUE, backImage, now))
    /\ \A userId \in UserCookies : AppendOnly(UsdtPaymentResult(userId, "tx"))
    /\ \A adminId \in Admins :
          /\ \A submissionId \in SubmissionIds :
                /\ AppendOnly(ApproveGiftcardResult(adminId, submissionId, now))
                /\ AppendOnly(RejectGiftcardResult(adminId, submissionId, "", now))
          /\ \A email \in TargetEmails :
                /\ \A amount \in Amounts :
                      /\ AppendOnly(AddBalanceResult(adminId, email, amount))
                      /\ AppendOnly(DeductBalanceResult(adminId, email, amount))
                /\ AppendOnly(UpdateUserResult(adminId, email, "name", "n2"))
                /\ AppendOnly(DeleteUserResult(adminId, email))
          /\ AppendOnly(CreateUserResult(adminId, "n1", <<"b">>, <<"5", "0">>,
                                         "undefined", now))

\* an approval has completed the gift-card transaction that follows a credit
\* in the log, and the credit is as it was recorded
C27_Witness ==
    /\ res.op = "approve-giftcard"
    /\ res.success
    /\ Len(transactions) = 2
    /\ transactions[1].type = "admin_credit"
    /\ transactions[1].amount = Num(500)
    /\ transactions[2].paymentMethod = "giftcard"
    /\ transactions[2].status = "completed"
    /\ transactions[2].amount = Num(10)

---------------------------------------------------------------------------
(* Properties of the ids of new users *)

\* the outcome has one user more and every record of before as it was
OneUserMore(o) ==
    /\ Len(o.users) = Len(users) + 1
    /\ \A i \in DOMAIN users : o.users[i] = users[i]

\* C28: a sign-up or a create-user that succeeds gives the new user an id
\* that is not the key of an existing record: there is exactly one user
\* more, and no record is overwritten, also when the creation comes at the
\* clock value of an earlier one with another e-mail address.
C28_FreshId ==
    \A t \in Clock :
        /\ LET o == SignupResult("n1", <<"b">>, t)
           IN  o.res.success => OneUserMore(o)
        /\ \A adminId \in Admins :
              LET o == CreateUserResult(adminId, "n1", <<"b">>, <<"5", "0">>,
                                        "undefined", t)
              IN  o.res.success => OneUserMore(o)

---------------------------------------------------------------------------
(* Properties of activated users *)

\* the completed activation fees of the user
CompletedFees(userId) ==
    {j \in DOMAIN transactions :
        /\ transactions[j].type = "activation_fee"
        /\ transactions[j].from = userId
        /\ transactions[j].status = "completed"}

\* C29: in every state reached by sign-ups, activation payments, approvals
\* and rejections, a user created by sign-up that is activated has at least
\* one completed activation_fee transaction from that user in the log.
C29_ActivatedHasPaid ==
    \A i \in SignedUp :
        users[i].activated => CompletedFees(users[i].id) # {}

\* an approval has activated the user who signed up, whose gift-card
\* transaction is completed
C29_Witness ==
    /\ res.op = "approve-giftcard"
    /\ res.success
    /\ \E i \in SignedUp :
          /\ users[i].activated
          /\ \E j \in CompletedFees(users[i].id) :
                transactions[j].paymentMethod = "giftcard"

---------------------------------------------------------------------------
(* Properties of the balances *)

\* C30: from users with balances that are not negative, after any sequence
\* of credits and debits, with any amounts, the balance of every user is
\* still a number that is not negative.
C30_BalancesNonNegative ==
    \A i \in DOMAIN users :
        users[i].balance.k = "num" /\ users[i].balance.v >= 0


\* what does hold: no balance is a negative number
C30_NeverNegative ==
    \A i \in DOMAIN users :
        users[i].balance.k = "num" => users[i].balance.v >= 0

---------------------------------------------------------------------------
(* Properties of the admin log *)

\* the outcome of a request of the administrator: one entry more, his and
\* of that action, at the end of the log when the request succeeded, and the
\* log as it was when it did not
LoggedOnce(o, action, adminId) ==
    IF o.res.success
        THEN /\ OneAppended(adminLogs, o.adminLogs)
             /\ o.adminLogs[Len(o.adminLogs)].action = action
             /\ o.adminLogs[Len(o.adminLogs)].adminId = adminId
    ELSE o.adminLogs = adminLogs

NamesSystemOrAdmin(o) ==
    \A k \in (Len(adminLogs) + 1)..Len(o.adminLogs) :
        \/ o.adminLogs[k].adminId = System
        \/ IsAdminNow(o.adminLogs[k].adminId)

\* what the requests of a client holding these two cookies would leave
\* behind
SessionOutcomes(adminId, userId) ==
    {AdminLogoutResult(adminId), UsdtPaymentResult(userId, "tx")}
        \cup {AddBalanceResult(adminId, email, <<"5", "0">>) :
                email \in TargetEmails}
        \cup {DeleteUserResult(adminId, email) : email \in TargetEmails}
        \cup {UpdateUserResult(adminId, email, "name", "n2") :
                email \in TargetEmails}
        \cup {ApproveGiftcardResult(adminId, submissionId, now) :
                submissionId \in SubmissionIds}
        \cup {GiftcardPaymentResult(req, TRUE, TRUE, now) :
                req \in IF requireUserLogin(users, userId)
                            THEN {Request(users, userId)} ELSE {}}

\* C32: every entry is written to the admin log with an adminId that is
\* 'system' or the id of a record that has role admin at that time, and a
\* request without a valid admin or user session adds no entry.
C32_LogNamesAdmins ==
    /\ \A email \in TargetEmails, password \in Passwords :
          NamesSystemOrAdmin(AdminLoginResult(email, password))
    /\ \A adminId \in HeldCookies, userId \in HeldCookies :
          \A o \in SessionOutcomes(adminId, userId) :
              /\ NamesSystemOrAdmin(o)
              /\ (~requireAdminLogin(users, adminId)
                    /\ ~requireUserLogin(users, userId))
                  => o.adminLogs = adminLogs

\* the same for every request but the logout
C32_ButLogout ==
    \A adminId \in HeldCookies, userId \in HeldCookies :
        \A o \in SessionOutcomes(adminId, userId) \ {AdminLogoutResult(adminId)} :
            /\ NamesSystemOrAdmin(o)
            /\ (~requireAdminLogin(users, adminId)
                  /\ ~requireUserLogin(users, userId))
                => o.adminLogs = adminLogs

---------------------------------------------------------------------------
(* Properties of the autosave copies *)

\* the autosave copy of the collection holds what its main file holds
ShadowCurrent(fs, c) == fs[AutoSaveFile(c)] = fs[Main(c)]

\* a start of the server on these files with the main file of the
\* collection missing or empty finds the document that the file held
RestoresAll(fs, c) ==
    \A content \in {Missing, Blank} :
        LET started == initializeServer([fs EXCEPT ![Main(c)] = content])
        IN  IF c = "users" THEN getUsers(started).value = getUsers(fs).value
            ELSE getList(started, c) = getList(fs, c)

\* C33, for the saves and the autosave timer: after a tick of the timer and
\* after a save of users or of a list entry the autosave copy of the
\* collection equals its main file, and a start without the main file loses
\* nothing.
C33_ButDecisions ==
    /\ \A c \in Collections :
          ShadowCurrent(autoSaveData(files), c) /\ RestoresAll(autoSaveData(files), c)
    /\ \A us \in UsersUpdates(getUsers(files).value) :
          LET saved == saveUsersTo(getUsers(files).files, us)
          IN  ShadowCurrent(saved, "users") /\ RestoresAll(saved, "users")
    /\ \A c \in Lists :
          LET saved == saveListTo(files, c, "x")
          IN  ShadowCurrent(saved, c) /\ RestoresAll(saved, c)

\* C33: after a tick of the autosave timer and after every completed
\* operation that changes a collection, approvals and rejections included,
\* the autosave copy of the collection equals its main file, so that a
\* start of the server without the main file loses no completed operation.
C33_ShadowCurrent ==
    /\ C33_ButDecisions
    /\ \A c \in Lists :
          /\ approveGiftcardOn(files, c) # files
                => /\ ShadowCurrent(approveGiftcardOn(files, c), c)
                   /\ ShadowCurrent(approveGiftcardOn(files, c), "users")
                   /\ RestoresAll(approveGiftcardOn(files, c), c)
          /\ rejectGiftcardOn(files, c) # files
                => /\ ShadowCurrent(rejectGiftcardOn(files, c), c)
                   /\ RestoresAll(rejectGiftcardOn(files, c), c)

---------------------------------------------------------------------------
(* Properties of the lookup of a submission *)

\* the submissionIds an administrator can send: those of the recorded
\* submissions, the ids of the users, timestamps, or none
LookupIds ==
    SubmissionIds \cup Keys(users) \cup {ISOString(t) : t \in 0..MaxClock}

\* the submissions recorded for the user, by their place in the document
SubmissionsOf(userId) ==
    {i \in DOMAIN giftCardSubmissions : giftCardSubmissions[i].userId = userId}

\* the earliest recorded of them
Earliest(userId) ==
    CHOOSE i \in SubmissionsOf(userId) : \A j \in SubmissionsOf(userId) : i <= j

\* the submissionId is no timestamp and no userId of a recorded submission
MatchesNothing(submissionId) ==
    \A i \in DOMAIN giftCardSubmissions :
        /\ giftCardSubmissions[i].timestamp # submissionId
        /\ giftCardSubmissions[i].userId # submissionId

\* the request is refused as not found and nothing is written
NotFound(o) ==
    /\ ~o.res.success
    /\ o.res.error = "Submission not found"
    /\ o.users = users
    /\ o.transactions = transactions
    /\ o.giftCardSubmissions = giftCardSubmissions
    /\ o.adminLogs = adminLogs

\* the decision is written to the earliest submission of the user, and
\* every other submission is as it was
DecidesEarliest(o, userId, status) ==
    /\ o.res.success
    /\ Len(o.giftCardSubmissions) = Len(giftCardSubmissions)
    /\ o.giftCardSubmissions[Earliest(userId)].status = status
    /\ o.giftCardSubmissions[Earliest(userId)].userId = userId
    /\ \A i \in DOMAIN giftCardSubmissions \ {Earliest(userId)} :
          o.giftCardSubmissions[i] = giftCardSubmissions[i]

\* C34: an approval or rejection whose submissionId is no timestamp and no
\* userId of a recorded submission fails as not found and leaves the
\* submissions, users, transactions and admin log as they were; one whose
\* submissionId is the userId of several submissions changes the earliest
\* recorded submission of that user and no other.
C34_SubmissionLookup ==
    \A adminId \in Admins, submissionId \in LookupIds, t \in Clock :
        LET approved == ApproveGiftcardResult(adminId, submissionId, t)
            rejected == RejectGiftcardResult(adminId, submissionId, "", t)
        IN  /\ MatchesNothing(submissionId)
                 => NotFound(approved) /\ NotFound(rejected)
            /\ Cardinality(SubmissionsOf(submissionId)) >= 2
                 => /\ DecidesEarliest(approved, submissionId, "approved")
                    /\ approved.giftCardSubmissions[Earliest(submissionId)].approvedBy
                          = adminId
                    /\ DecidesEarliest(rejected, submissionId, "rejected")
                    /\ rejected.giftCardSubmissions[Earliest(submissionId)].rejectedBy
                          = adminId

\* a user has two submissions, an approval sent with the id of that user has
\* approved the first and left the second pending, and an approval with the
\* id of the administrator would find nothing
C34_Witness ==
    /\ res.op = "approve-giftcard"
    /\ res.success
    /\ Len(giftCardSubmissions) = 2
    /\ giftCardSubmissions[1].userId = giftCardSubmissions[2].userId
    /\ giftCardSubmissions[1].status = "approved"
    /\ giftCardSubmissions[1].approvedBy = adminId1
    /\ giftCardSubmissions[2].status = "pending"
    /\ adminLogs[Len(adminLogs)].details.submissionId = giftCardSubmissions[1].userId
    /\ MatchesNothing(adminId1)
    /\ NotFound(ApproveGiftcardResult(adminId1, adminId1, now))

=============================================================================
